---- MODULE Spec2Model ----
(***************************************************************************)
(* A model of the jsoxente interpreter: the Scanner (src/src/Scanner.js),  *)
(* the Parser (src/src/Parser.js), the Interpreter (src/src/Interpreter.js *)
(* with Environment.js and Function.js) and the command-line driver that   *)
(* runs them (src/unnamed/part_003).                                       *)
(*                                                                         *)
(* Source text is a sequence of one-character strings; a JavaScript index  *)
(* i is position i + 1 of the sequence, and substring(a, b) is             *)
(* SubSeq(_, a + 1, b).                                                    *)
(***************************************************************************)
EXTENDS Integers, Sequences, FiniteSets, TLC

VARIABLES
    scanner,    \* the Scanner object of the scan in progress (Scanner.js:38-54)
    pc,         \* where scanTokens is: "scanning", "returned" or "thrown"
    segs,       \* history: the window [start, current) of every loop iteration
    oxente,     \* the driver process: its latches, its interpreter, its
                \* output and where it is (src/unnamed/part_003)
    interpreter,\* an Interpreter object given statement lists directly: the
                \* object, how its last interpret call ended and what its
                \* runtime error reporter received (src/src/Interpreter.js)
    parser      \* a Parser object given a token list directly: the object,
                \* where its parse call is, the statements pushed so far and
                \* what the last declaration returned (src/src/Parser.js)

vars == <<scanner, pc, segs, oxente, interpreter, parser>>

-----------------------------------------------------------------------------
(* Bounds of the model *)

\* longest source text enumerated exhaustively over ScanChars
MaxLen == 3

\* most declarations in the source of a file given to the driver
MaxDecls == 2

\* most lines typed at the prompt of the driver
MaxLines == 2

-----------------------------------------------------------------------------
(* Characters *)

Lower == <<"a", "b", "c", "d", "e", "f", "g", "h", "i", "j", "k", "l", "m",
           "n", "o", "p", "q", "r", "s", "t", "u", "v", "w", "x", "y", "z">>
Upper == <<"A", "B", "C", "D", "E", "F", "G", "H", "I", "J", "K", "L", "M",
           "N", "O", "P", "Q", "R", "S", "T", "U", "V", "W", "X", "Y", "Z">>
Digits == <<"0", "1", "2", "3", "4", "5", "6", "7", "8", "9">>

\* what peek() and peekNext() return past the end of the source: '\0'
NUL == "NUL"

Punct ==
    (NUL :> 0) @@ ("\t" :> 9) @@ ("\n" :> 10) @@ ("\r" :> 13) @@ (" " :> 32)
    @@ ("!" :> 33) @@ ("\"" :> 34) @@ ("#" :> 35) @@ ("(" :> 40) @@ (")" :> 41)
    @@ ("*" :> 42) @@ ("+" :> 43) @@ ("," :> 44) @@ ("-" :> 45) @@ ("." :> 46)
    @@ ("/" :> 47) @@ (":" :> 58) @@ (";" :> 59) @@ ("<" :> 60) @@ ("=" :> 61)
    @@ (">" :> 62) @@ ("?" :> 63) @@ ("@" :> 64) @@ ("_" :> 95) @@ ("{" :> 123)
    @@ ("}" :> 125)

\* the UTF-16 code unit of a character: JavaScript compares one-character
\* strings by it (char >= '0' && char <= '9')
CharCode(c) ==
    IF \E i \in DOMAIN Lower : Lower[i] = c
    THEN 96 + (CHOOSE i \in DOMAIN Lower : Lower[i] = c)
    ELSE IF \E i \in DOMAIN Upper : Upper[i] = c
    THEN 64 + (CHOOSE i \in DOMAIN Upper : Upper[i] = c)
    ELSE IF \E i \in DOMAIN Digits : Digits[i] = c
    THEN 47 + (CHOOSE i \in DOMAIN Digits : Digits[i] = c)
    ELSE Punct[c]

-----------------------------------------------------------------------------
(* TokenType.js *)

TokenType ==
    { "LEFT_PAREN", "RIGHT_PAREN", "LEFT_BRACE", "RIGHT_BRACE", "COMMA", "DOT",
      "MINUS", "PLUS", "SEMICOLON", "SLASH", "STAR", "QUESTION", "COLON",
      "BANG", "BANG_EQUAL", "EQUAL", "EQUAL_EQUAL", "GREATER", "GREATER_EQUAL",
      "LESS", "LESS_EQUAL",
      "IDENTIFIER", "STRING", "NUMBER",
      "AND", "CLASS", "ELSE", "FALSE", "FUN", "FOR", "IF", "NIL", "OR",
      "PRINT", "RETURN", "SUPER", "THIS", "TRUE", "VAR", "WHILE", "BREAK",
      "EOF" }

\* literal values carried by tokens: null, a string, a number
Null == [type |-> "null"]
StringLiteral(chars) == [type |-> "string", chars |-> chars]

RECURSIVE DigitsValue(_)
DigitsValue(ds) ==
    IF ds = <<>> THEN 0
    ELSE 10 * DigitsValue(SubSeq(ds, 1, Len(ds) - 1)) + (CharCode(ds[Len(ds)]) - 48)

RECURSIVE GCD(_, _)
GCD(a, b) == IF b = 0 THEN a ELSE GCD(b, a % b)

RECURSIVE Pow10(_)
Pow10(n) == IF n = 0 THEN 1 ELSE 10 * Pow10(n - 1)

\* a number value: the fraction num / den in lowest terms, den > 0 (the
\* model computes with exact fractions where JavaScript rounds to a double)
Number(num, den) ==
    LET g == GCD(IF num < 0 THEN -num ELSE num, den)
    IN  [type |-> "number", num |-> num \div g, den |-> den \div g]

\* parseFloat of a lexeme digits ( "." digits )?: the number it denotes
parseFloat(text) ==
    LET dot == IF \E i \in DOMAIN text : text[i] = "."
               THEN CHOOSE i \in DOMAIN text : text[i] = "." ELSE Len(text) + 1
        ds == SubSeq(text, 1, dot - 1) \o SubSeq(text, dot + 1, Len(text))
    IN  Number(DigitsValue(ds), Pow10(Len(text) - (IF dot > Len(text) THEN Len(text) ELSE dot)))

\* new Token(type, lexeme, literal, line)
Token(type, lexeme, literal, line) ==
    [type |-> type, lexeme |-> lexeme, literal |-> literal, line |-> line]

-----------------------------------------------------------------------------
(* Scanner.js *)

keywords ==
    (<<"a", "n", "d">> :> "AND")
    @@ (<<"c", "l", "a", "s", "s">> :> "CLASS")
    @@ (<<"e", "l", "s", "e">> :> "ELSE")
    @@ (<<"f", "a", "l", "s", "e">> :> "FALSE")
    @@ (<<"f", "o", "r">> :> "FOR")
    @@ (<<"f", "u", "n">> :> "FUN")
    @@ (<<"i", "f">> :> "IF")
    @@ (<<"n", "i", "l">> :> "NIL")
    @@ (<<"o", "r">> :> "OR")
    @@ (<<"p", "r", "i", "n", "t">> :> "PRINT")
    @@ (<<"r", "e", "t", "u", "r", "n">> :> "RETURN")
    @@ (<<"s", "u", "p", "e", "r">> :> "SUPER")
    @@ (<<"t", "h", "i", "s">> :> "THIS")
    @@ (<<"t", "r", "u", "e">> :> "TRUE")
    @@ (<<"v", "a", "r">> :> "VAR")
    @@ (<<"w", "h", "i", "l", "e">> :> "WHILE")

\* keywords is an object literal: a property read also finds what it
\* inherits from Object.prototype
ObjectPrototypeKeys ==
    { <<"c", "o", "n", "s", "t", "r", "u", "c", "t", "o", "r">>,
      <<"t", "o", "S", "t", "r", "i", "n", "g">>,
      <<"v", "a", "l", "u", "e", "O", "f">>,
      <<"h", "a", "s", "O", "w", "n", "P", "r", "o", "p", "e", "r", "t", "y">>,
      <<"i", "s", "P", "r", "o", "t", "o", "t", "y", "p", "e", "O", "f">>,
      <<"p", "r", "o", "p", "e", "r", "t", "y", "I", "s", "E", "n", "u", "m", "e", "r", "a", "b", "l", "e">>,
      <<"t", "o", "L", "o", "c", "a", "l", "e", "S", "t", "r", "i", "n", "g">>,
      <<"_", "_", "p", "r", "o", "t", "o", "_", "_">>,
      <<"_", "_", "d", "e", "f", "i", "n", "e", "G", "e", "t", "t", "e", "r", "_", "_">>,
      <<"_", "_", "d", "e", "f", "i", "n", "e", "S", "e", "t", "t", "e", "r", "_", "_">>,
      <<"_", "_", "l", "o", "o", "k", "u", "p", "G", "e", "t", "t", "e", "r", "_", "_">>,
      <<"_", "_", "l", "o", "o", "k", "u", "p", "S", "e", "t", "t", "e", "r", "_", "_">> }

\* keywords[text] || IDENTIFIER: an own key gives its kind, an inherited key
\* gives the (truthy) inherited function or object, anything else undefined
keywordsLookup(text) ==
    IF text \in DOMAIN keywords THEN keywords[text]
    ELSE IF text \in ObjectPrototypeKeys THEN "Object.prototype"
    ELSE "IDENTIFIER"

\* new Scanner(source, errorReporter). reported and thrown record what the
\* calls of errorReporter did: the (line, message) pairs it received, and the
\* exception one of them raised ("none" while none has).
NewScanner(source, errorReporter) ==
    [source |-> source, tokens |-> <<>>, errorReporter |-> errorReporter,
     start |-> 0, current |-> 0, line |-> 1,
     reported |-> <<>>, thrown |-> "none"]

isDigit(char) == CharCode(char) >= CharCode("0") /\ CharCode(char) <= CharCode("9")

isAlpha(char) ==
    \/ CharCode(char) >= CharCode("a") /\ CharCode(char) <= CharCode("z")
    \/ CharCode(char) >= CharCode("A") /\ CharCode(char) <= CharCode("Z")
    \/ char = "_"

isAlphaNumeric(char) == isAlpha(char) \/ isDigit(char)

isAtEnd(s) == s.current >= Len(s.source)

advance(s) == [s EXCEPT !.current = @ + 1]

peek(s) == IF isAtEnd(s) THEN NUL ELSE s.source[s.current + 1]

peekNext(s) ==
    IF s.current + 1 >= Len(s.source) THEN NUL ELSE s.source[s.current + 2]

\* match(expected): the scanner after the call, and what the call returned
match(s, expected) ==
    IF isAtEnd(s) THEN [s |-> s, matched |-> FALSE]
    ELSE IF s.source[s.current + 1] # expected THEN [s |-> s, matched |-> FALSE]
    ELSE [s |-> [s EXCEPT !.current = @ + 1], matched |-> TRUE]

addToken(s, type, literal) ==
    LET text == SubSeq(s.source, s.start + 1, s.current)
    IN  [s EXCEPT !.tokens = Append(@, Token(type, text, literal, s.line))]

\* errorReporter as a reporter that raises instead of returning
errorReporterThrows(s, line, message) == [s EXCEPT !.thrown = "Error"]

\* this.errorReporter(line, message), for the two reporters the repository
\* passes: one that takes the pair and returns (Scanner.js:49), and the
\* driver's error, which raises a ReferenceError on a line number
\* (part_003:79-90)
errorReporter(s, line, message) ==
    LET called == [s EXCEPT !.reported = Append(@, [line |-> line, message |-> message])]
    IN  IF s.errorReporter = "error"
        THEN [called EXCEPT !.thrown = "ReferenceError"]
        ELSE called

\* stringLoop without the line count of the newlines inside the literal
RECURSIVE stringLoopNoLine(_)
stringLoopNoLine(s) ==
    IF peek(s) # "\"" /\ ~isAtEnd(s) THEN stringLoopNoLine(advance(s)) ELSE s

RECURSIVE stringLoop(_)
stringLoop(s) ==
    IF peek(s) # "\"" /\ ~isAtEnd(s)
    THEN stringLoop(advance(IF peek(s) = "\n" THEN [s EXCEPT !.line = @ + 1] ELSE s))
    ELSE s

string(s0) ==
    LET s == stringLoop(s0)
    IN  IF isAtEnd(s)
        THEN errorReporter(s, s.line, "Unterminated string.")
        ELSE LET t == advance(s)
                 value == SubSeq(t.source, t.start + 2, t.current - 1)
             IN  addToken(t, "STRING", StringLiteral(value))

RECURSIVE blockComment(_)
blockComment(s) ==
    IF ~isAtEnd(s)
    THEN IF peek(s) = "*" /\ peekNext(s) = "/"
         THEN advance(advance(s))
         ELSE blockComment(advance(IF peek(s) = "\n" THEN [s EXCEPT !.line = @ + 1] ELSE s))
    ELSE errorReporter(s, s.line, "Unterminated block comment.")

RECURSIVE lineComment(_)
lineComment(s) ==
    IF peek(s) # "\n" /\ ~isAtEnd(s) THEN lineComment(advance(s)) ELSE s

RECURSIVE digitsLoop(_)
digitsLoop(s) == IF isDigit(peek(s)) THEN digitsLoop(advance(s)) ELSE s

number(s0) ==
    LET s1 == digitsLoop(s0)
        s2 == IF peek(s1) = "." /\ isDigit(peekNext(s1))
              THEN digitsLoop(advance(s1)) ELSE s1
        value == parseFloat(SubSeq(s2.source, s2.start + 1, s2.current))
    IN  addToken(s2, "NUMBER", value)

RECURSIVE identifierLoop(_)
identifierLoop(s) ==
    IF isAlphaNumeric(peek(s)) THEN identifierLoop(advance(s)) ELSE s

identifier(s0) ==
    LET s == identifierLoop(s0)
        text == SubSeq(s.source, s.start + 1, s.current)
        type == keywordsLookup(text)
    IN  addToken(s, type, Null)

SingleCharTokens ==
    ("(" :> "LEFT_PAREN") @@ (")" :> "RIGHT_PAREN") @@ ("{" :> "LEFT_BRACE")
    @@ ("}" :> "RIGHT_BRACE") @@ ("," :> "COMMA") @@ ("." :> "DOT")
    @@ ("-" :> "MINUS") @@ ("+" :> "PLUS") @@ (";" :> "SEMICOLON")
    @@ ("*" :> "STAR") @@ ("?" :> "QUESTION") @@ (":" :> "COLON")

twoCharToken(s, two, one) ==
    LET m == match(s, "=")
    IN  addToken(m.s, IF m.matched THEN two ELSE one, Null)

slash(s) ==
    LET m1 == match(s, "/")
        m2 == match(s, "*")
    IN  IF m1.matched THEN lineComment(m1.s)
        ELSE IF m2.matched THEN blockComment(m2.s)
        ELSE addToken(s, "SLASH", Null)

scanToken(s0) ==
    LET c == s0.source[s0.current + 1]
        s == advance(s0)
    IN  CASE c \in DOMAIN SingleCharTokens -> addToken(s, SingleCharTokens[c], Null)
          [] c = "!" -> twoCharToken(s, "BANG_EQUAL", "BANG")
          [] c = "=" -> twoCharToken(s, "EQUAL_EQUAL", "EQUAL")
          [] c = "<" -> twoCharToken(s, "LESS_EQUAL", "LESS")
          [] c = ">" -> twoCharToken(s, "GREATER_EQUAL", "GREATER")
          [] c = "/" -> slash(s)
          [] c \in {" ", "\r", "\t"} -> s
          [] c = "\n" -> [s EXCEPT !.line = @ + 1]
          [] c = "\"" -> string(s)
          [] OTHER ->
                IF isDigit(c) THEN number(s)
                ELSE IF isAlpha(c) THEN identifier(s)
                ELSE errorReporter(s, s.line, "Unexpected character.")

\* scanTokensStep without this.start = this.current
scanTokensStepKeepStart(s) == scanToken(s)

\* one iteration of the loop of scanTokens
scanTokensStep(s) == scanToken([s EXCEPT !.start = s.current])

\* scanTokensEnd with the EOF token on the first line
scanTokensEndLineOne(s) ==
    [s EXCEPT !.tokens = Append(@, Token("EOF", <<>>, Null, 1))]

\* what scanTokens does after the loop
scanTokensEnd(s) ==
    [s EXCEPT !.tokens = Append(@, Token("EOF", <<>>, Null, s.line))]

\* scanTokens as a whole, stopped by an exception of the reporter
RECURSIVE scanTokens(_)
scanTokens(s) ==
    IF s.thrown # "none" THEN s
    ELSE IF ~isAtEnd(s) THEN scanTokens(scanTokensStep(s))
    ELSE scanTokensEnd(s)

-----------------------------------------------------------------------------
(* Expr.js, Stmt.js: the nodes of the syntax tree *)

\* a null reference where a node is optional or missing
NullNode == [node |-> "null"]

BooleanValue(b) == [type |-> "boolean", value |-> b]

Literal(value) == [node |-> "Literal", value |-> value]
Unary(operator, right) == [node |-> "Unary", operator |-> operator, right |-> right]
Binary(left, operator, right) ==
    [node |-> "Binary", left |-> left, operator |-> operator, right |-> right]
Grouping(expression) == [node |-> "Grouping", expression |-> expression]
Ternary(condition, thenBranch, elseBranch) ==
    [node |-> "Ternary", condition |-> condition,
     thenBranch |-> thenBranch, elseBranch |-> elseBranch]
Variable(name) == [node |-> "Variable", name |-> name]
Assign(name, value) == [node |-> "Assign", name |-> name, value |-> value]
Call(callee, paren, arguments) ==
    [node |-> "Call", callee |-> callee, paren |-> paren, arguments |-> arguments]

ExpressionStmt(expression) == [node |-> "Expression", expression |-> expression]
PrintStmt(expression) == [node |-> "Print", expression |-> expression]
VarStmt(name, initializer) == [node |-> "Var", name |-> name, initializer |-> initializer]
BlockStmt(statements) == [node |-> "Block", statements |-> statements]
IfStmt(condition, thenBranch, elseBranch) ==
    [node |-> "If", condition |-> condition,
     thenBranch |-> thenBranch, elseBranch |-> elseBranch]
WhileStmt(condition, body) == [node |-> "While", condition |-> condition, body |-> body]
BreakStmt == [node |-> "Break"]
FunctionStmt(name, params, body) ==
    [node |-> "Function", name |-> name, params |-> params, body |-> body]
ReturnStmt(keyword, value) == [node |-> "Return", keyword |-> keyword, value |-> value]

-----------------------------------------------------------------------------
(* Parser.js *)

\* new Parser(tokens, errorReporter). reported holds the (token, message)
\* pairs given to errorReporter; thrown is "ParseError" while a ParseError
\* is in flight.
NewParser(tokens) ==
    [tokens |-> tokens, current |-> 0, loopDepth |-> 0,
     reported |-> <<>>, thrown |-> "none"]

\* what a parsing method gives back: the parser after it, and its result
Ret(p, node) == [p |-> p, node |-> node]

Thrown(p) == p.thrown # "none"

pPeek(p) == p.tokens[p.current + 1]

pPrevious(p) == p.tokens[p.current]

pIsAtEnd(p) == pPeek(p).type = "EOF"

pCheck(p, type) == IF pIsAtEnd(p) THEN FALSE ELSE pPeek(p).type = type

pAdvance(p) == IF ~pIsAtEnd(p) THEN [p EXCEPT !.current = @ + 1] ELSE p

\* match(...types): the parser after the call, and what the call returned
pMatch(p, types) ==
    IF \E type \in types : pCheck(p, type)
    THEN [p |-> pAdvance(p), matched |-> TRUE]
    ELSE [p |-> p, matched |-> FALSE]

\* error(token, message): reports, and returns a ParseError for the caller
\* to throw or to drop
pError(p, token, message) ==
    [p EXCEPT !.reported = Append(@, [token |-> token, message |-> message])]

pThrow(p) == [p EXCEPT !.thrown = "ParseError"]

\* consume(type, message): the parser after the call and the token consumed
pConsume(p, type, message) ==
    IF pCheck(p, type) THEN Ret(pAdvance(p), pPeek(p))
    ELSE Ret(pThrow(pError(p, pPeek(p), message)), NullNode)

SyncTypes == {"CLASS", "FUN", "VAR", "FOR", "IF", "WHILE", "PRINT", "RETURN"}

RECURSIVE synchronizeLoop(_)
synchronizeLoop(p) ==
    IF pIsAtEnd(p) THEN p
    ELSE IF pPrevious(p).type = "SEMICOLON" THEN p
    ELSE IF pPeek(p).type \in SyncTypes THEN p
    ELSE synchronizeLoop(pAdvance(p))

\* a recovery that discards one token and stops there
synchronizeOnce(p) == pAdvance(p)

synchronize(p) == synchronizeLoop(pAdvance(p))

\* const v = ...; rest
With(v, rest(_)) == rest(v)

\* sequencing of two steps of a parsing method: the rest of the method,
\* rest, goes on from what the call before it returned, r, unless that call
\* threw a ParseError, which then leaves the method too
pThen(r, rest(_)) == IF Thrown(r.p) THEN r ELSE rest(r)

RECURSIVE expression(_), assignment(_), comma(_), commaLoop(_, _), ternary(_),
          equality(_), equalityLoop(_, _), comparison(_), comparisonLoop(_, _),
          term(_), termLoop(_, _), factor(_), factorLoop(_, _),
          unary(_), primary(_)

expression(p) == assignment(p)

\* an assignment that throws the error of an invalid target
assignmentThrows(p) ==
    pThen(comma(p), LAMBDA expr :
        LET m == pMatch(expr.p, {"EQUAL"})
        IN  IF ~m.matched THEN expr
            ELSE pThen(assignment(m.p), LAMBDA value :
                    IF expr.node.node = "Variable"
                    THEN Ret(value.p, Assign(expr.node.name, value.node))
                    ELSE Ret(pThrow(pError(value.p, pPrevious(m.p),
                                           "Invalid assignment target.")),
                             NullNode)))

assignment(p) ==
    pThen(comma(p), LAMBDA expr :
        LET m == pMatch(expr.p, {"EQUAL"})
        IN  IF ~m.matched THEN expr
            ELSE pThen(assignment(m.p), LAMBDA value :
                    IF expr.node.node = "Variable"
                    THEN Ret(value.p, Assign(expr.node.name, value.node))
                    ELSE Ret(pError(value.p, pPrevious(m.p), "Invalid assignment target."),
                             expr.node)))

\* while (this.match(COMMA)) { operator = previous(); right = ternary();
\*   expr = new Expr.Binary(expr, operator, right); }
commaLoop(p, expr) ==
    LET m == pMatch(p, {"COMMA"})
    IN  IF ~m.matched THEN Ret(p, expr)
        ELSE pThen(ternary(m.p), LAMBDA right :
                commaLoop(right.p, Binary(expr, pPrevious(m.p), right.node)))

comma(p) == pThen(ternary(p), LAMBDA expr : commaLoop(expr.p, expr.node))

ternary(p) ==
    pThen(equality(p), LAMBDA expr :
        LET m == pMatch(expr.p, {"QUESTION"})
        IN  IF ~m.matched THEN expr
            ELSE pThen(expression(m.p), LAMBDA thenBranch :
                 pThen(pConsume(thenBranch.p, "COLON",
                         "Expect ':' after then branch of conditional expression."),
                       LAMBDA colon :
                 pThen(ternary(colon.p), LAMBDA elseBranch :
                    Ret(elseBranch.p,
                        Ternary(expr.node, thenBranch.node, elseBranch.node))))))

\* In equality, comparison, term and factor the first operand parsed is
\* the left operand or, after an operator that has no left operand (an
\* error is reported, m.matched), the operand that is parsed and dropped.

equalityLoop(p, expr) ==
    LET m == pMatch(p, {"BANG_EQUAL", "EQUAL_EQUAL"})
    IN  IF ~m.matched THEN Ret(p, expr)
        ELSE pThen(comparison(m.p), LAMBDA right :
                equalityLoop(right.p, Binary(expr, pPrevious(m.p), right.node)))

equality(p) ==
    LET m == pMatch(p, {"BANG_EQUAL", "EQUAL_EQUAL"})
    IN  pThen(comparison(IF m.matched
                         THEN pError(m.p, pPrevious(m.p), "Missing left-hand operand.")
                         ELSE p),
              LAMBDA expr : IF m.matched THEN Ret(expr.p, Literal(Null))
                            ELSE equalityLoop(expr.p, expr.node))

comparisonLoop(p, expr) ==
    LET m == pMatch(p, {"GREATER", "GREATER_EQUAL", "LESS", "LESS_EQUAL"})
    IN  IF ~m.matched THEN Ret(p, expr)
        ELSE pThen(term(m.p), LAMBDA right :
                comparisonLoop(right.p, Binary(expr, pPrevious(m.p), right.node)))

comparison(p) ==
    LET m == pMatch(p, {"GREATER", "GREATER_EQUAL", "LESS", "LESS_EQUAL"})
    IN  pThen(term(IF m.matched
                   THEN pError(m.p, pPrevious(m.p), "Missing left-hand operand.")
                   ELSE p),
              LAMBDA expr : IF m.matched THEN Ret(expr.p, Literal(Null))
                            ELSE comparisonLoop(expr.p, expr.node))

termLoop(p, expr) ==
    LET m == pMatch(p, {"MINUS", "PLUS"})
    IN  IF ~m.matched THEN Ret(p, expr)
        ELSE pThen(factor(m.p), LAMBDA right :
                termLoop(right.p, Binary(expr, pPrevious(m.p), right.node)))

term(p) ==
    LET m == pMatch(p, {"PLUS"})
    IN  pThen(factor(IF m.matched
                     THEN pError(m.p, pPrevious(m.p), "Missing left-hand operand.")
                     ELSE p),
              LAMBDA expr : IF m.matched THEN Ret(expr.p, Literal(Null))
                            ELSE termLoop(expr.p, expr.node))

factorLoop(p, expr) ==
    LET m == pMatch(p, {"SLASH", "STAR"})
    IN  IF ~m.matched THEN Ret(p, expr)
        ELSE pThen(unary(m.p), LAMBDA right :
                factorLoop(right.p, Binary(expr, pPrevious(m.p), right.node)))

factor(p) ==
    LET m == pMatch(p, {"SLASH", "STAR"})
    IN  pThen(unary(IF m.matched
                    THEN pError(m.p, pPrevious(m.p), "Missing left-hand operand.")
                    ELSE p),
              LAMBDA expr : IF m.matched THEN Ret(expr.p, Literal(Null))
                            ELSE factorLoop(expr.p, expr.node))

unary(p) ==
    LET m == pMatch(p, {"BANG", "MINUS"})
    IN  IF m.matched
        THEN pThen(unary(m.p), LAMBDA right :
                Ret(right.p, Unary(pPrevious(m.p), right.node)))
        ELSE primary(p)

primary(p) ==
    IF pCheck(p, "FALSE") THEN Ret(pAdvance(p), Literal(BooleanValue(FALSE)))
    ELSE IF pCheck(p, "TRUE") THEN Ret(pAdvance(p), Literal(BooleanValue(TRUE)))
    ELSE IF pCheck(p, "NIL") THEN Ret(pAdvance(p), Literal(Null))
    ELSE IF pCheck(p, "NUMBER") \/ pCheck(p, "STRING")
    THEN Ret(pAdvance(p), Literal(pPeek(p).literal))
    ELSE IF pCheck(p, "IDENTIFIER") THEN Ret(pAdvance(p), Variable(pPeek(p)))
    ELSE IF pCheck(p, "LEFT_PAREN")
    THEN pThen(expression(pAdvance(p)), LAMBDA expr :
         pThen(pConsume(expr.p, "RIGHT_PAREN", "Expect ')' after expression."),
               LAMBDA paren : Ret(paren.p, Grouping(expr.node))))
    ELSE Ret(pThrow(pError(p, pPeek(p), "Expect expression.")), NullNode)

RECURSIVE declaration(_), tryDeclaration(_), statement(_), blockLoop(_, _)

printStatement(p) ==
    pThen(expression(p), LAMBDA value :
    pThen(pConsume(value.p, "SEMICOLON", "Expect ';' after value."), LAMBDA semicolon :
        Ret(semicolon.p, PrintStmt(value.node))))

expressionStatement(p) ==
    pThen(expression(p), LAMBDA expr :
    pThen(pConsume(expr.p, "SEMICOLON", "Expect ';' after expression."),
          LAMBDA semicolon : Ret(semicolon.p, ExpressionStmt(expr.node))))

varDeclaration(p) ==
    pThen(pConsume(p, "IDENTIFIER", "Expect variable name."), LAMBDA name :
        LET m == pMatch(name.p, {"EQUAL"})
        IN  pThen(IF m.matched THEN expression(m.p) ELSE Ret(name.p, NullNode),
                  LAMBDA initializer :
            pThen(pConsume(initializer.p, "SEMICOLON",
                           "Expect ';' after variable declaration."),
                  LAMBDA semicolon :
                Ret(semicolon.p, VarStmt(name.node, initializer.node)))))

breakStatement(p) ==
    pThen(pConsume(IF p.loopDepth = 0
                   THEN pError(p, pPrevious(p), "Must be inside a loop to use 'break'.")
                   ELSE p,
                   "SEMICOLON", "Expect ';' after 'break'."),
          LAMBDA semicolon : Ret(semicolon.p, BreakStmt))

ifStatement(p) ==
    pThen(pConsume(p, "LEFT_PAREN", "Expect '(' after 'if'."), LAMBDA left :
    pThen(expression(left.p), LAMBDA condition :
    pThen(pConsume(condition.p, "RIGHT_PAREN", "Expect ')' after if condition."),
          LAMBDA right :
    pThen(statement(right.p), LAMBDA thenBranch :
        LET m == pMatch(thenBranch.p, {"ELSE"})
        IN  pThen(IF m.matched THEN statement(m.p) ELSE Ret(thenBranch.p, NullNode),
                  LAMBDA elseBranch :
                Ret(elseBranch.p,
                    IfStmt(condition.node, thenBranch.node, elseBranch.node)))))))

\* a tree in which the increment comes before the body
forDesugarIncrementFirst(initializer, condition, increment, body) ==
    LET b1 == IF increment # NullNode
              THEN BlockStmt(<<ExpressionStmt(increment), body>>) ELSE body
        c1 == IF condition = NullNode THEN Literal(BooleanValue(TRUE)) ELSE condition
        b2 == WhileStmt(c1, b1)
    IN  IF initializer # NullNode THEN BlockStmt(<<initializer, b2>>) ELSE b2

\* the tree forStatement builds from the clauses it parsed
forDesugar(initializer, condition, increment, body) ==
    LET b1 == IF increment # NullNode
              THEN BlockStmt(<<body, ExpressionStmt(increment)>>) ELSE body
        c1 == IF condition = NullNode THEN Literal(BooleanValue(TRUE)) ELSE condition
        b2 == WhileStmt(c1, b1)
    IN  IF initializer # NullNode THEN BlockStmt(<<initializer, b2>>) ELSE b2

\* loopDepth is counted down at the end of the method only: a ParseError
\* thrown inside leaves it counted up
forStatement(p) ==
    pThen(pConsume([p EXCEPT !.loopDepth = @ + 1], "LEFT_PAREN",
                   "Expect '(' after 'for'."), LAMBDA left :
    pThen(IF pCheck(left.p, "SEMICOLON") THEN Ret(pAdvance(left.p), NullNode)
          ELSE IF pCheck(left.p, "VAR") THEN varDeclaration(pAdvance(left.p))
          ELSE expressionStatement(left.p), LAMBDA initializer :
    pThen(IF ~pCheck(initializer.p, "SEMICOLON") THEN expression(initializer.p)
          ELSE Ret(initializer.p, NullNode), LAMBDA condition :
    pThen(pConsume(condition.p, "SEMICOLON", "Expect ';' after loop condition."),
          LAMBDA semicolon :
    pThen(IF ~pCheck(semicolon.p, "RIGHT_PAREN") THEN expression(semicolon.p)
          ELSE Ret(semicolon.p, NullNode), LAMBDA increment :
    pThen(pConsume(increment.p, "RIGHT_PAREN", "Expect ')' after for clauses."),
          LAMBDA right :
    pThen(statement(right.p), LAMBDA body :
        Ret([body.p EXCEPT !.loopDepth = @ - 1],
            forDesugar(initializer.node, condition.node, increment.node,
                       body.node)))))))))

whileStatement(p) ==
    pThen(pConsume([p EXCEPT !.loopDepth = @ + 1], "LEFT_PAREN",
                   "Expect '(' after 'while'."), LAMBDA left :
    pThen(expression(left.p), LAMBDA condition :
    pThen(pConsume(condition.p, "RIGHT_PAREN", "Expect ')' after condition."),
          LAMBDA right :
    pThen(statement(right.p), LAMBDA body :
        Ret([body.p EXCEPT !.loopDepth = @ - 1],
            WhileStmt(condition.node, body.node))))))

\* while (!check(RIGHT_BRACE) && !isAtEnd()) statements.push(declaration());
blockLoop(p, statements) ==
    IF ~pCheck(p, "RIGHT_BRACE") /\ ~pIsAtEnd(p)
    THEN pThen(declaration(p), LAMBDA d : blockLoop(d.p, Append(statements, d.node)))
    ELSE Ret(p, statements)

\* block(): node is the list of statements
block(p) ==
    pThen(blockLoop(p, <<>>), LAMBDA statements :
    pThen(pConsume(statements.p, "RIGHT_BRACE", "Expect '}' after block."),
          LAMBDA brace : Ret(brace.p, statements.node)))

statement(p) ==
    IF pCheck(p, "BREAK") THEN breakStatement(pAdvance(p))
    ELSE IF pCheck(p, "FOR") THEN forStatement(pAdvance(p))
    ELSE IF pCheck(p, "IF") THEN ifStatement(pAdvance(p))
    ELSE IF pCheck(p, "PRINT") THEN printStatement(pAdvance(p))
    ELSE IF pCheck(p, "WHILE") THEN whileStatement(pAdvance(p))
    ELSE IF pCheck(p, "LEFT_BRACE")
    THEN pThen(block(pAdvance(p)), LAMBDA b : Ret(b.p, BlockStmt(b.node)))
    ELSE expressionStatement(p)

\* catch (error) { if (error instanceof ParseError) { this.synchronize();
\*   return null; } throw error; }
catchParseError(r) ==
    IF r.p.thrown = "ParseError"
    THEN Ret(synchronize([r.p EXCEPT !.thrown = "none"]), NullNode)
    ELSE r

\* the try block of declaration()
tryDeclaration(p) ==
    IF pCheck(p, "VAR") THEN varDeclaration(pAdvance(p)) ELSE statement(p)

\* a declaration without its catch clause
declarationUncaught(p) == tryDeclaration(p)

declaration(p) == catchParseError(tryDeclaration(p))

\* statements.push(declaration) when declaration !== null
push(statements, d) == IF d # NullNode THEN Append(statements, d) ELSE statements

\* the loop of parse(): node is the list of statements
RECURSIVE parseLoop(_, _)
parseLoop(p, statements) ==
    IF ~pIsAtEnd(p)
    THEN pThen(declaration(p), LAMBDA d : parseLoop(d.p, push(statements, d.node)))
    ELSE Ret(p, statements)

parse(p) == parseLoop(p, <<>>)

\* A call of parse on a new Parser, one iteration of its loop at a time:
\* p is the Parser object, statements the local list of parse(),
\* declaration what the last call of declaration() returned, and ctl
\* where the call is ("none" before it, "running", "returned").
NoParse ==
    [p |-> NewParser(<<>>), statements |-> <<>>, declaration |-> NullNode,
     ctl |-> "none"]

\* new Parser(tokens, reporter).parse(), up to the test of the loop
parseBegin(tokens) ==
    [p |-> NewParser(tokens), statements |-> <<>>, declaration |-> NullNode,
     ctl |-> "running"]

\* const declaration = this.declaration();
\* if (declaration !== null) statements.push(declaration);
parseStep(P) ==
    With(declaration(P.p), LAMBDA d :
        [P EXCEPT !.p = d.p, !.declaration = d.node,
                  !.statements = push(@, d.node)])

\* return statements;
parseEnd(P) == [P EXCEPT !.ctl = "returned"]

-----------------------------------------------------------------------------
(* Runtime values: null (nil), booleans, numbers, strings (the type       *)
(* "string" record of the scanner) and callables                          *)

RECURSIVE Concat(_)
\* the JavaScript string made of a sequence of characters
Concat(chars) == IF chars = <<>> THEN "" ELSE Head(chars) \o Concat(Tail(chars))

typeof(v) == IF v.type = "null" \/ v.type = "callable" THEN "object" ELSE v.type

\* the native clock function defined by the constructor of Interpreter
ClockCallable == [type |-> "callable", kind |-> "native", id |-> 0]

\* new Function(declaration, closure); id tells one object from another
FunctionCallable(decl, closure, id) ==
    [type |-> "callable", kind |-> "function", id |-> id,
     declaration |-> decl, closure |-> closure]

RECURSIVE NatToString(_)
NatToString(n) ==
    IF n < 10 THEN <<Digits[n + 1]>>
    ELSE Append(NatToString(n \div 10), Digits[(n % 10) + 1])

\* digits of the fraction r / den (r < den), at most k of them
RECURSIVE FractionDigits(_, _, _)
FractionDigits(r, den, k) ==
    IF r = 0 \/ k = 0 THEN <<>>
    ELSE <<Digits[((10 * r) \div den) + 1]>> \o FractionDigits((10 * r) % den, den, k - 1)

\* String(number), as characters: an integral value has no fractional part
NumberToString(v) ==
    LET a == IF v.num < 0 THEN -v.num ELSE v.num
        sign == IF v.num < 0 THEN <<"-">> ELSE <<>>
    IN  IF v.den = 1 THEN sign \o NatToString(a)
        ELSE sign \o NatToString(a \div v.den) \o <<".">>
                  \o FractionDigits(a % v.den, v.den, 16)

-----------------------------------------------------------------------------
(* Environment.js *)

\* The interpreter with its environments: envs holds every Environment
\* created, an Environment being referred to by its index (0 is null);
\* out holds the lines written by console.log.
NewInterpreter ==
    [envs |-> <<[enclosing |-> 0,
                 values |-> (<<"c", "l", "o", "c", "k">> :> ClockCallable)]>>,
     globals |-> 1, environment |-> 1, out |-> <<>>, nextId |-> 1]

\* new Environment(enclosing): the interpreter with it, its index is Len(envs)
NewEnvironment(I, enclosing) ==
    [I EXCEPT !.envs = Append(@, [enclosing |-> enclosing, values |-> <<>>])]

has(I, env, name) == name \in DOMAIN I.envs[env].values

define(I, env, name, value) ==
    [I EXCEPT !.envs[env].values =
        [n \in (DOMAIN @) \cup {name} |-> IF n = name THEN value ELSE @[n]]]

\* what an evaluation gives back: the interpreter after it, how it ended
\* ("normal", or the exception in flight) and its value (the thrown
\* object's payload when it did not end normally)
Normal(I, value) == [I |-> I, ctl |-> "normal", value |-> value]

RuntimeError(I, token, message) ==
    [I |-> I, ctl |-> "RuntimeError", value |-> [token |-> token, message |-> message]]

Abrupt(r) == r.ctl # "normal"

UndefinedVariable(I, name) ==
    RuntimeError(I, name, "Undefined variable '" \o Concat(name.lexeme) \o "'.")

RECURSIVE get(_, _, _)
get(I, env, name) ==
    IF has(I, env, name.lexeme) THEN Normal(I, I.envs[env].values[name.lexeme])
    ELSE IF I.envs[env].enclosing # 0 THEN get(I, I.envs[env].enclosing, name)
    ELSE UndefinedVariable(I, name)

\* an assignment that binds the name in the environment it is given
assignInCurrent(I, env, name, value) == Normal(define(I, env, name.lexeme, value), value)

RECURSIVE assign(_, _, _, _)
assign(I, env, name, value) ==
    IF has(I, env, name.lexeme) THEN Normal(define(I, env, name.lexeme, value), value)
    ELSE IF I.envs[env].enclosing # 0 THEN assign(I, I.envs[env].enclosing, name, value)
    ELSE UndefinedVariable(I, name)

-----------------------------------------------------------------------------
(* Interpreter.js, Function.js *)

\* iterations of one while statement after which the model gives the run
\* up as one that does not end
MaxIter == 3

isTruthy(object) ==
    IF object.type = "null" THEN FALSE
    ELSE IF object.type = "boolean" THEN object.value
    ELSE TRUE

isEqual(a, b) ==
    IF a.type = "null" /\ b.type = "null" THEN TRUE
    ELSE IF a.type = "null" THEN FALSE
    ELSE a = b

\* stringify(object), as characters
stringify(object) ==
    CASE object.type = "null" -> <<"n", "i", "l">>
      [] object.type = "number" -> NumberToString(object)
      [] object.type = "boolean" ->
            IF object.value THEN <<"t", "r", "u", "e">> ELSE <<"f", "a", "l", "s", "e">>
      [] object.type = "string" -> object.chars
      [] object.type = "callable" ->
            IF object.kind = "native"
            THEN <<"<", "n", "a", "t", "i", "v", "e", " ", "f", "n", ">">>
            ELSE <<"<", "f", "n", " ">> \o object.declaration.name.lexeme \o <<">">>

checkNumberOperand(I, operator, operand) ==
    IF typeof(operand) = "number" THEN Normal(I, Null)
    ELSE RuntimeError(I, operator, "Operand must be a number.")

checkNumberOperands(I, operator, left, right) ==
    IF typeof(left) = "number" /\ typeof(right) = "number" THEN Normal(I, Null)
    ELSE RuntimeError(I, operator, "Operands must be numbers.")

\* a + that takes two numbers or two strings and nothing else
binaryOpStrictPlus(I, operator, left, right) ==
    IF operator.type # "PLUS" THEN Normal(I, Null)
    ELSE IF typeof(left) = "number" /\ typeof(right) = "number"
    THEN Normal(I, Number(left.num * right.den + right.num * left.den,
                          left.den * right.den))
    ELSE IF typeof(left) = "string" /\ typeof(right) = "string"
    THEN Normal(I, StringLiteral(left.chars \o right.chars))
    ELSE RuntimeError(I, operator, "Operands must be two numbers or two strings.")

\* the switch of visitBinaryExpr, on operands already evaluated
binaryOp(I, operator, left, right) ==
    LET chk == checkNumberOperands(I, operator, left, right)
        l == left.num * right.den
        r == right.num * left.den
    IN  CASE operator.type = "MINUS" ->
                IF Abrupt(chk) THEN chk
                ELSE Normal(I, Number(l - r, left.den * right.den))
          [] operator.type = "SLASH" ->
                IF Abrupt(chk) THEN chk
                ELSE IF right.num = 0
                THEN RuntimeError(I, operator, "Division by zero.")
                ELSE Normal(I, Number((IF right.num < 0 THEN -1 ELSE 1) * l,
                                      IF r < 0 THEN -r ELSE r))
          [] operator.type = "STAR" ->
                IF Abrupt(chk) THEN chk
                ELSE Normal(I, Number(left.num * right.num, left.den * right.den))
          [] operator.type = "PLUS" ->
                IF typeof(left) = "number" /\ typeof(right) = "number"
                THEN Normal(I, Number(l + r, left.den * right.den))
                ELSE IF typeof(left) = "string" \/ typeof(right) = "string"
                THEN Normal(I, StringLiteral(stringify(left) \o stringify(right)))
                ELSE RuntimeError(I, operator,
                                  "Operands must be two numbers or two strings.")
          [] operator.type = "GREATER" ->
                IF Abrupt(chk) THEN chk ELSE Normal(I, BooleanValue(l > r))
          [] operator.type = "GREATER_EQUAL" ->
                IF Abrupt(chk) THEN chk ELSE Normal(I, BooleanValue(l >= r))
          [] operator.type = "LESS" ->
                IF Abrupt(chk) THEN chk ELSE Normal(I, BooleanValue(l < r))
          [] operator.type = "LESS_EQUAL" ->
                IF Abrupt(chk) THEN chk ELSE Normal(I, BooleanValue(l <= r))
          [] operator.type = "BANG_EQUAL" -> Normal(I, BooleanValue(~isEqual(left, right)))
          [] operator.type = "EQUAL_EQUAL" -> Normal(I, BooleanValue(isEqual(left, right)))
          [] OTHER -> Normal(I, Null)

\* sequencing of two steps of a method: the rest of the method, rest, goes
\* on from what the call before it returned, r, unless that call threw,
\* and then the exception leaves the method too
Then(r, rest(_)) == IF Abrupt(r) THEN r ELSE rest(r)

RECURSIVE evaluate(_, _), execute(_, _), executeBlock(_, _, _),
          executeList(_, _, _), evaluateList(_, _, _, _), whileLoop(_, _, _),
          call(_, _, _)

visitLiteralExpr(I, expr) == Normal(I, expr.value)

visitGroupingExpr(I, expr) == evaluate(I, expr.expression)

visitVariableExpr(I, expr) == get(I, I.environment, expr.name)

visitAssignExpr(I, expr) ==
    Then(evaluate(I, expr.value), LAMBDA value :
        assign(value.I, value.I.environment, expr.name, value.value))

visitUnaryExpr(I, expr) ==
    Then(evaluate(I, expr.right), LAMBDA right :
        CASE expr.operator.type = "MINUS" ->
                Then(checkNumberOperand(right.I, expr.operator, right.value),
                     LAMBDA checked :
                        Normal(right.I, Number(-right.value.num, right.value.den)))
          [] expr.operator.type = "BANG" ->
                Normal(right.I, BooleanValue(~isTruthy(right.value)))
          [] OTHER -> Normal(right.I, Null))

visitBinaryExpr(I, expr) ==
    Then(evaluate(I, expr.left), LAMBDA left :
    Then(evaluate(left.I, expr.right), LAMBDA right :
        binaryOp(right.I, expr.operator, left.value, right.value)))

visitTernaryExpr(I, expr) ==
    Then(evaluate(I, expr.condition), LAMBDA condition :
        evaluate(condition.I, IF isTruthy(condition.value) THEN expr.thenBranch
                              ELSE expr.elseBranch))

\* for (const argument of expr.arguments) args.push(this.evaluate(argument));
\* the value of the result is the list of argument values
evaluateList(I, arguments, i, args) ==
    IF i > Len(arguments) THEN Normal(I, args)
    ELSE Then(evaluate(I, arguments[i]), LAMBDA argument :
            evaluateList(argument.I, arguments, i + 1, Append(args, argument.value)))

arity(callee) ==
    IF callee.kind = "native" THEN 0 ELSE Len(callee.declaration.params)

\* the environment of a call, with each parameter bound to its argument
RECURSIVE defineParams(_, _, _, _, _)
defineParams(I, env, params, args, i) ==
    IF i > Len(params) THEN I
    ELSE defineParams(define(I, env, params[i].lexeme, args[i]), env, params, args, i + 1)

\* a call without its catch clause
catchNothing(r) == r

\* catch (returnValue) { if (returnValue instanceof Return) return
\*   returnValue.value; throw returnValue; } return null;
catchReturn(r) ==
    IF r.ctl = "Return" THEN Normal(r.I, r.value)
    ELSE IF Abrupt(r) THEN r
    ELSE Normal(r.I, Null)

\* a call whose new environment has the caller's current environment as
\* its parent
callInCurrent(I, callee, args) ==
    IF callee.kind = "native" THEN Normal(I, Number(0, 1))
    ELSE catchReturn(
            executeBlock(defineParams(NewEnvironment(I, I.environment), Len(I.envs) + 1,
                                      callee.declaration.params, args, 1),
                         callee.declaration.body, Len(I.envs) + 1))

\* callee.call(interpreter, args): clock (the time, which the model fixes),
\* or Function.call, whose new environment is the last of envs
call(I, callee, args) ==
    IF callee.kind = "native" THEN Normal(I, Number(0, 1))
    ELSE catchReturn(
            executeBlock(defineParams(NewEnvironment(I, callee.closure), Len(I.envs) + 1,
                                      callee.declaration.params, args, 1),
                         callee.declaration.body, Len(I.envs) + 1))

\* a call that checks its callee before it evaluates the arguments
visitCallExprChecksFirst(I, expr) ==
    Then(evaluate(I, expr.callee), LAMBDA callee :
        IF callee.value.type # "callable"
        THEN RuntimeError(callee.I, expr.paren, "Can only call functions and classes.")
        ELSE IF Len(expr.arguments) # arity(callee.value)
        THEN RuntimeError(callee.I, expr.paren,
                "Expected " \o Concat(NatToString(arity(callee.value)))
                \o " arguments but got " \o Concat(NatToString(Len(expr.arguments))) \o ".")
        ELSE Then(evaluateList(callee.I, expr.arguments, 1, <<>>), LAMBDA args :
                call(args.I, callee.value, args.value)))

visitCallExpr(I, expr) ==
    Then(evaluate(I, expr.callee), LAMBDA callee :
    Then(evaluateList(callee.I, expr.arguments, 1, <<>>), LAMBDA args :
        IF callee.value.type # "callable"
        THEN RuntimeError(args.I, expr.paren, "Can only call functions and classes.")
        ELSE IF Len(args.value) # arity(callee.value)
        THEN RuntimeError(args.I, expr.paren,
                "Expected " \o Concat(NatToString(arity(callee.value)))
                \o " arguments but got " \o Concat(NatToString(Len(args.value))) \o ".")
        ELSE call(args.I, callee.value, args.value)))

\* evaluate(expr): expr.accept(this)
evaluate(I, expr) ==
    CASE expr.node = "Literal" -> visitLiteralExpr(I, expr)
      [] expr.node = "Grouping" -> visitGroupingExpr(I, expr)
      [] expr.node = "Variable" -> visitVariableExpr(I, expr)
      [] expr.node = "Assign" -> visitAssignExpr(I, expr)
      [] expr.node = "Unary" -> visitUnaryExpr(I, expr)
      [] expr.node = "Binary" -> visitBinaryExpr(I, expr)
      [] expr.node = "Ternary" -> visitTernaryExpr(I, expr)
      [] expr.node = "Call" -> visitCallExpr(I, expr)
      [] OTHER -> [I |-> I, ctl |-> "TypeError", value |-> Null]

visitExpressionStmt(I, stmt) ==
    Then(evaluate(I, stmt.expression), LAMBDA value : Normal(value.I, Null))

\* console.log(this.stringify(value))
visitPrintStmt(I, stmt) ==
    Then(evaluate(I, stmt.expression), LAMBDA value :
        Normal([value.I EXCEPT !.out = Append(@, Concat(stringify(value.value)))], Null))

\* a declaration that binds the name in the global environment
visitVariableStmtInGlobals(I, stmt) ==
    Then(IF stmt.initializer # NullNode THEN evaluate(I, stmt.initializer)
         ELSE Normal(I, Null),
         LAMBDA value :
            Normal(define(value.I, value.I.globals, stmt.name.lexeme, value.value), Null))

visitVariableStmt(I, stmt) ==
    Then(IF stmt.initializer # NullNode THEN evaluate(I, stmt.initializer)
         ELSE Normal(I, Null),
         LAMBDA value :
            Normal(define(value.I, value.I.environment, stmt.name.lexeme, value.value),
                   Null))

visitFunctionStmt(I, stmt) ==
    Normal(define([I EXCEPT !.nextId = @ + 1], I.environment, stmt.name.lexeme,
                  FunctionCallable(stmt, I.environment, I.nextId)),
           Null)

visitReturnStmt(I, stmt) ==
    Then(IF stmt.value # NullNode THEN evaluate(I, stmt.value) ELSE Normal(I, Null),
         LAMBDA value : [I |-> value.I, ctl |-> "Return", value |-> value.value])

visitBreakStmt(I) == [I |-> I, ctl |-> "BreakInterrupt", value |-> Null]

\* while (this.isTruthy(this.evaluate(stmt.condition))) this.execute(stmt.body);
\* n counts the iterations done
whileLoop(I, stmt, n) ==
    Then(evaluate(I, stmt.condition), LAMBDA condition :
        IF ~isTruthy(condition.value) THEN Normal(condition.I, Null)
        ELSE IF n >= MaxIter THEN [I |-> condition.I, ctl |-> "Diverge", value |-> Null]
        ELSE Then(execute(condition.I, stmt.body), LAMBDA body :
                whileLoop(body.I, stmt, n + 1)))

\* a loop that catches nothing
rethrowBreakInterrupt(r) == r

\* a loop that catches every exception
catchEverything(r) == IF Abrupt(r) THEN Normal(r.I, Null) ELSE r

\* catch (error) { if (!(error instanceof BreakInterrupt)) throw error; }
catchBreakInterrupt(r) == IF r.ctl = "BreakInterrupt" THEN Normal(r.I, Null) ELSE r

visitWhileStmt(I, stmt) == catchBreakInterrupt(whileLoop(I, stmt, 0))

visitIfStmt(I, stmt) ==
    Then(evaluate(I, stmt.condition), LAMBDA condition :
        IF isTruthy(condition.value) \/ stmt.elseBranch # NullNode
        THEN execute(condition.I, IF isTruthy(condition.value) THEN stmt.thenBranch
                                  ELSE stmt.elseBranch)
        ELSE Normal(condition.I, Null))

\* executeBlock(stmt.statements, new Environment(this.environment))
visitBlockStmt(I, stmt) ==
    executeBlock(NewEnvironment(I, I.environment), stmt.statements, Len(I.envs) + 1)

\* for (const statement of statements) this.execute(statement);
executeList(I, statements, i) ==
    IF i > Len(statements) THEN Normal(I, Null)
    ELSE Then(execute(I, statements[i]), LAMBDA executed :
            executeList(executed.I, statements, i + 1))

\* a block without its finally clause
finallyNothing(r, previous) == r

\* finally { this.environment = previous; }
finally(r, previous) == [r EXCEPT !.I.environment = previous]

\* try { this.environment = environment; ... } finally { ... }
executeBlock(I, statements, environment) ==
    finally(executeList([I EXCEPT !.environment = environment], statements, 1),
            I.environment)

\* execute(stmt): stmt.accept(this), a TypeError when stmt is null
execute(I, stmt) ==
    CASE stmt.node = "Expression" -> visitExpressionStmt(I, stmt)
      [] stmt.node = "Print" -> visitPrintStmt(I, stmt)
      [] stmt.node = "Var" -> visitVariableStmt(I, stmt)
      [] stmt.node = "Function" -> visitFunctionStmt(I, stmt)
      [] stmt.node = "Return" -> visitReturnStmt(I, stmt)
      [] stmt.node = "While" -> visitWhileStmt(I, stmt)
      [] stmt.node = "Break" -> visitBreakStmt(I)
      [] stmt.node = "If" -> visitIfStmt(I, stmt)
      [] stmt.node = "Block" -> visitBlockStmt(I, stmt)
      [] OTHER -> [I |-> I, ctl |-> "TypeError", value |-> Null]

\* catch (error) { if (error instanceof RuntimeError) this.runtimeError(error);
\*   else throw error; }: ctl "reported" is the call of the reporter, with
\* the error as the value
catchRuntimeError(r) == IF r.ctl = "RuntimeError" THEN [r EXCEPT !.ctl = "reported"] ELSE r

\* interpret on an interpreter whose environments are those of a new one
interpretNewGlobals(I, statements) ==
    catchRuntimeError(
        executeList([I EXCEPT !.envs = NewInterpreter.envs,
                              !.globals = NewInterpreter.globals,
                              !.environment = NewInterpreter.environment],
                    statements, 1))

interpret(I, statements) == catchRuntimeError(executeList(I, statements, 1))

\* successive interpret calls on the same interpreter, one statement each,
\* for as long as the calls return; errors counts the runtime errors
RECURSIVE interpretEach(_, _, _, _)
interpretEach(I, statements, i, errs) ==
    IF i > Len(statements) THEN [I |-> I, ctl |-> "normal", errors |-> errs]
    ELSE With(interpret(I, <<statements[i]>>), LAMBDA r :
            IF r.ctl = "normal" THEN interpretEach(r.I, statements, i + 1, errs)
            ELSE IF r.ctl = "reported" THEN interpretEach(r.I, statements, i + 1, errs + 1)
            ELSE [I |-> r.I, ctl |-> r.ctl, errors |-> errs])

\* new Interpreter(runtimeErrorReporter), before any call of interpret: I is
\* the object; statements is the list given to the last call of interpret
\* and next the statement its loop is at (0 when no call is in progress);
\* ctl tells how that call ended ("normal", "reported" when it gave a
\* RuntimeError to the reporter, or the exception that left it) and is
\* "running" until then, value is what the exception carried;
\* runtimeErrors is what the reporter has received
NewSession ==
    [I |-> NewInterpreter, ctl |-> "none", value |-> Null, statements |-> <<>>,
     next |-> 0, calls |-> 0, runtimeErrors |-> <<>>]

\* interpreter.interpret(statements) is called
interpretBegin(S, statements) ==
    [S EXCEPT !.statements = statements, !.next = 1, !.calls = @ + 1,
              !.ctl = "running", !.value = Null]

\* one iteration of the loop of interpret, this.execute(statement), with
\* the catch clause around the loop
interpretStep(S) ==
    With(catchRuntimeError(execute(S.I, S.statements[S.next])), LAMBDA r :
        IF r.ctl = "normal" THEN [S EXCEPT !.I = r.I, !.next = @ + 1]
        ELSE [S EXCEPT !.I = r.I, !.next = 0, !.ctl = r.ctl, !.value = r.value,
                       !.runtimeErrors = IF r.ctl = "reported" THEN Append(@, r.value)
                                         ELSE @])

\* the loop of interpret is over and interpret returns
interpretEnd(S) == [S EXCEPT !.next = 0, !.ctl = "normal"]

-----------------------------------------------------------------------------
(* The driver, src/unnamed/part_003.  Standard output is the out of the    *)
(* interpreter, where print writes.                                        *)

\* let hadError = false; let hadRuntimeError = false;
\* const interpreter = new Interpreter(runtimeError);
\* history: the arguments and the file of the run, the source last given to
\* run, the statements parsed from it, the calls of error made for it and
\* the number of runs
NewOxente ==
    [pc |-> "main", hadError |-> FALSE, hadRuntimeError |-> FALSE,
     interpreter |-> NewInterpreter, stderr |-> <<>>, thrown |-> "none",
     exitCode |-> -1, prompts |-> 0,
     args |-> <<>>, file |-> [readable |-> FALSE, source |-> <<>>],
     source |-> <<>>, expression |-> <<>>, calls |-> 0, runs |-> 0]

\* console.log(text)
log(O, text) == [O EXCEPT !.interpreter.out = Append(@, text)]

\* process.exit(code)
exit(O, code) == [O EXCEPT !.pc = "exited", !.exitCode = code]

report(O, line, where, message) ==
    [O EXCEPT !.stderr = Append(@, [line |-> line, where |-> where, message |-> message]),
              !.hadError = TRUE]

\* error(line, message): line is a Token (from the parser) or a line number
\* (from the scanner); the branch of a line number names lineOrToken, which
\* is declared nowhere
error(O, line, message) ==
    IF line.instanceofToken
    THEN IF line.token.type = "EOF"
         THEN report(O, line.token.line, " at end", message)
         ELSE report(O, line.token.line, " at '" \o Concat(line.token.lexeme) \o "'",
                     message)
    ELSE [O EXCEPT !.thrown = "ReferenceError"]

runtimeError(O, err) ==
    [O EXCEPT !.stderr = Append(@, [line |-> err.token.line, where |-> "Runtime Error",
                                    message |-> err.message]),
              !.hadRuntimeError = TRUE]

\* the calls of error made by the scanner (with line numbers) or by the
\* parser (with tokens), in order, up to one that throws
RECURSIVE errors(_, _, _, _)
errors(O, reported, instanceofToken, i) ==
    IF i > Len(reported) \/ O.thrown # "none" THEN O
    ELSE LET line == IF instanceofToken
                     THEN [instanceofToken |-> TRUE, token |-> reported[i].token]
                     ELSE [instanceofToken |-> FALSE, number |-> reported[i].line]
         IN  errors(error([O EXCEPT !.calls = @ + 1], line, reported[i].message),
                    reported, instanceofToken, i + 1)

\* the first four lines of run: scanTokens() and parse(), with error as
\* the reporter of both
scanAndParse(O, source) ==
    With(scanTokens(NewScanner(source, "error")), LAMBDA s :
    With(errors([O EXCEPT !.source = source, !.expression = <<>>,
                          !.calls = 0, !.runs = @ + 1],
                s.reported, FALSE, 1), LAMBDA O1 :
        IF O1.thrown # "none" THEN O1
        ELSE With(parse(NewParser(s.tokens)), LAMBDA r :
                [errors(O1, r.p.reported, TRUE, 1) EXCEPT !.expression = r.node])))

\* interpreter.interpret(expression), runtimeError its reporter
interpretExpression(O, statements) ==
    With(interpret(O.interpreter, statements), LAMBDA i :
        LET O1 == [O EXCEPT !.interpreter = i.I]
        IN  IF i.ctl = "reported" THEN runtimeError(O1, i.value)
            ELSE IF i.ctl = "normal" THEN O1
            ELSE [O1 EXCEPT !.thrown = i.ctl])

\* run without its line 74, if (hadError) return;
runInterpretAnyway(O, source) ==
    With(scanAndParse(O, source), LAMBDA O1 :
        IF O1.thrown # "none" THEN O1 ELSE interpretExpression(O1, O1.expression))

run(O, source) ==
    With(scanAndParse(O, source), LAMBDA O1 :
        IF O1.thrown # "none" THEN O1
        ELSE IF O1.hadError THEN O1
        ELSE interpretExpression(O1, O1.expression))

\* a run that does not end: the process stays in it
hang(O) == [O EXCEPT !.pc = "hung"]

\* runFile(path): file is what readFileSync finds at path
runFile(O, file) ==
    LET readError == [line |-> 0, where |-> "", message |-> "Error reading file"]
    IN  IF ~file.readable
        THEN exit([O EXCEPT !.stderr = Append(@, readError)], 74)
        ELSE With(run(O, file.source), LAMBDA O1 :
                IF O1.thrown = "Diverge" THEN hang(O1)
                ELSE IF O1.thrown # "none"
                THEN exit([O1 EXCEPT !.stderr = Append(@, readError)], 74)
                ELSE IF O1.hadError THEN exit(O1, 65)
                ELSE IF O1.hadRuntimeError THEN exit(O1, 70)
                ELSE O1)

\* runPrompt(): the two handlers are the actions Line and Close
runPrompt(O) == [O EXCEPT !.pc = "prompt", !.prompts = @ + 1]

\* main(), with the process ending by itself (status 0) when runFile returns
main(O, args, file) ==
    LET O0 == [O EXCEPT !.args = args, !.file = IF Len(args) = 1 THEN file ELSE @]
    IN  IF Len(args) > 1
        THEN exit(log(O0, "Usage: node oxente.js [script.oxe]"), 64)
        ELSE IF Len(args) = 1
        THEN With(runFile(O0, file), LAMBDA O1 :
                IF O1.pc = "main" THEN exit(O1, 0) ELSE O1)
        ELSE runPrompt(O0)

\* rl.on('line', ...): an exception that leaves run is caught by nobody and
\* ends the process with status 1
onLine(O, line) ==
    With(run(O, line), LAMBDA O1 :
        IF O1.thrown = "Diverge" THEN hang(O1)
        ELSE IF O1.thrown # "none" THEN exit(O1, 1)
        ELSE [O1 EXCEPT !.hadError = FALSE, !.hadRuntimeError = FALSE,
                        !.prompts = @ + 1])

\* rl.on('close', ...)
onClose(O) == exit(log(O, "\nExiting."), 0)

-----------------------------------------------------------------------------
(* The sources scanned *)

ScanChars == {"(", "!", "=", "/", "*", "\n", " ", "\"", "1", ".", "a", "@"}

RECURSIVE SeqsUpTo(_, _)
SeqsUpTo(S, n) ==
    IF n = 0 THEN {<<>>}
    ELSE LET shorter == SeqsUpTo(S, n - 1)
         IN  shorter \cup {Append(q, c) : q \in {r \in shorter : Len(r) = n - 1}, c \in S}

ProbeSources ==
    DOMAIN keywords \cup ObjectPrototypeKeys \cup
    { <<"b", "r", "e", "a", "k">>,
      <<"b", "r", "e", "a", "k", ";">>,
      <<"v", "a", "r", " ", "x", "_", "1", "=", "1", "0", ".", "5", "0", ";">>,
      <<"\"", "a", "\n", "b", "\"", " ", "x">>,
      <<"x", "\n", "\"", "\n", "\n", "\"", "\n", "y">>,
      <<"/", "*", "\n", "*", "/", "a", "\n", "@", "b">>,
      <<"/", "/", "@", "\n", "1", ".", "a">>,
      <<"a", "@", "#", "(", "1", ")", "\t", "\r", "<", "=", ">", "=", ">", "<">>,
      <<"{", "}", ",", "-", "+", ";", "?", ":", "!", "=", "=", "=">>,
      <<"\"", "a", "\n", "b">>,
      <<"1", "/", "*", "\n", "\n">>,
      <<"a", "\n", "@", "b", "#", "/", "*">> }

Sources == SeqsUpTo(ScanChars, MaxLen) \cup ProbeSources

\* the declarations the driver's sources are made of:
\*   print 1;   var a=1;   print a;   a=a+1;   {var a=5;print a;}
\*   while(a<3)a=a+1;   while(true)print 2;   print;   @
Declarations ==
    { <<"p", "r", "i", "n", "t", " ", "1", ";">>,
      <<"v", "a", "r", " ", "a", "=", "1", ";">>,
      <<"p", "r", "i", "n", "t", " ", "a", ";">>,
      <<"a", "=", "a", "+", "1", ";">>,
      <<"{", "v", "a", "r", " ", "a", "=", "5", ";",
        "p", "r", "i", "n", "t", " ", "a", ";", "}">>,
      <<"w", "h", "i", "l", "e", "(", "a", "<", "3", ")", "a", "=", "a", "+", "1", ";">>,
      <<"w", "h", "i", "l", "e", "(", "t", "r", "u", "e", ")",
        "p", "r", "i", "n", "t", " ", "2", ";">>,
      <<"p", "r", "i", "n", "t", ";">>,
      <<"@">> }

\* the sources of at most n declarations
RECURSIVE Programs(_)
Programs(n) ==
    IF n = 0 THEN {<<>>}
    ELSE LET shorter == Programs(n - 1)
         IN  shorter \cup {q \o d : q \in shorter, d \in Declarations}

\* process.argv.slice(2)
ArgLists == {<<>>, <<"a.oxe">>, <<"a.oxe", "b.oxe">>}

\* what readFileSync finds: nothing it can read, or a source
Files ==
    {[readable |-> FALSE, source |-> <<>>]} \cup
    {[readable |-> TRUE, source |-> source] : source \in Programs(MaxDecls)}

-----------------------------------------------------------------------------
(* The statement lists given to interpret directly.  The parser builds no  *)
(* Function, Return or Call node, so the lists that hold them are built    *)
(* with the constructors of Expr.js and Stmt.js.                           *)

\* most calls of interpret on one Interpreter object
MaxCalls == 1

Identifier(c) == Token("IDENTIFIER", <<c>>, Null, 1)
Operator(type, lexeme) == Token(type, lexeme, Null, 1)
Num(n) == Literal(Number(n, 1))
Str(chars) == Literal(StringLiteral(chars))
Var(c) == Variable(Identifier(c))
\* the variable clock
Clock == Variable(Token("IDENTIFIER", <<"c", "l", "o", "c", "k">>, Null, 1))
True == Literal(BooleanValue(TRUE))
VarDecl(c, initializer) == VarStmt(Identifier(c), initializer)
Fun(c, params, body) == FunctionStmt(Identifier(c), params, body)
Return(value) == ReturnStmt(Operator("RETURN", <<"r", "e", "t", "u", "r", "n">>), value)
CallOf(callee, arguments) == Call(callee, Operator("RIGHT_PAREN", <<")">>), arguments)
CallStmt(c) == ExpressionStmt(CallOf(Var(c), <<>>))
Plus(left, right) == Binary(left, Operator("PLUS", <<"+">>), right)
Less(left, right) == Binary(left, Operator("LESS", <<"<">>), right)

\* -"s", which raises "Operand must be a number." whatever the state
Failing == Unary(Operator("MINUS", <<"-">>), Str(<<"s">>))

\* blocks that end in each of the four ways:
\*   { var a = 2; print a; }        { var a = 2; -"s"; print a; }
\*   { var a = 2; return a; }       { var a = 2; break; }
\*   { var a = 2; { var a = 3; -"s"; } }
BlockNormal == BlockStmt(<<VarDecl("a", Num(2)), PrintStmt(Var("a"))>>)
BlockError ==
    BlockStmt(<<VarDecl("a", Num(2)), ExpressionStmt(Failing), PrintStmt(Var("a"))>>)
BlockReturn == BlockStmt(<<VarDecl("a", Num(2)), Return(Var("a"))>>)
BlockBreak == BlockStmt(<<VarDecl("a", Num(2)), BreakStmt>>)
BlockNested ==
    BlockStmt(<<VarDecl("a", Num(2)),
                BlockStmt(<<VarDecl("a", Num(3)), ExpressionStmt(Failing)>>)>>)

Blocks == {BlockNormal, BlockError, BlockReturn, BlockBreak, BlockNested}

\* a block by itself, as the body of a function that is called, and as the
\* body of a loop:   B   fun f() { B } f();   while (true) B
BlockLists ==
    {<<B>> : B \in Blocks}
    \cup {<<Fun("f", <<>>, <<B>>), CallStmt("f")>> : B \in Blocks}
    \cup {<<WhileStmt(True, B)>> : B \in Blocks}

\* blocks that declare their own variable of the given name and assign to
\* it:   { var x = 5; x = x + 1; x = "s"; print x; }
\*       { var x; x = 1; -"s"; }
\*       { var x = x; x = 2; { x = 3; var x = 4; x = 5; } }
ShadowBlocks(name) ==
    { BlockStmt(<<VarStmt(name, Num(5)),
                  ExpressionStmt(Assign(name, Plus(Variable(name), Num(1)))),
                  ExpressionStmt(Assign(name, Str(<<"s">>))),
                  PrintStmt(Variable(name))>>),
      BlockStmt(<<VarStmt(name, NullNode),
                  ExpressionStmt(Assign(name, Num(1))),
                  ExpressionStmt(Failing)>>),
      BlockStmt(<<VarStmt(name, Variable(name)),
                  ExpressionStmt(Assign(name, Num(2))),
                  BlockStmt(<<ExpressionStmt(Assign(name, Num(3))),
                              VarStmt(name, Num(4)),
                              ExpressionStmt(Assign(name, Num(5)))>>)>>) }

\* var a = 1; B print a;   and the same inside a function that is called:
\* fun f() { var a = 1; B print a; } f();
ShadowLists ==
    {<<VarDecl("a", Num(1)), B, PrintStmt(Var("a"))>> : B \in ShadowBlocks(Identifier("a"))}
    \cup {<<Fun("f", <<>>, <<VarDecl("a", Num(1)), B, PrintStmt(Var("a"))>>),
            CallStmt("f")>> : B \in ShadowBlocks(Identifier("a"))}

\* var a = 1; { var b = 2; { var c = 3; b = 4; a = 5; z = 6; c = 7; } }
AssignList ==
    <<VarDecl("a", Num(1)),
      BlockStmt(<<VarDecl("b", Num(2)),
                  BlockStmt(<<VarDecl("c", Num(3)),
                              ExpressionStmt(Assign(Identifier("b"), Num(4))),
                              ExpressionStmt(Assign(Identifier("a"), Num(5))),
                              ExpressionStmt(Assign(Identifier("z"), Num(6))),
                              ExpressionStmt(Assign(Identifier("c"), Num(7)))>>)>>)>>

\* fun m() { var c = 0; fun i() { c = c + 1; return c; } return i; }
\* var k = m(); print k(); print k(); print k();
CounterList ==
    <<Fun("m", <<>>,
          <<VarDecl("c", Num(0)),
            Fun("i", <<>>,
                <<ExpressionStmt(Assign(Identifier("c"), Plus(Var("c"), Num(1)))),
                  Return(Var("c"))>>),
            Return(Var("i"))>>),
      VarDecl("k", CallOf(Var("m"), <<>>)),
      PrintStmt(CallOf(Var("k"), <<>>)),
      PrintStmt(CallOf(Var("k"), <<>>)),
      PrintStmt(CallOf(Var("k"), <<>>))>>

\* the same, and then:   var j = m(); print j(); print k(); print j();
MoreCountersList ==
    CounterList \o
    <<VarDecl("j", CallOf(Var("m"), <<>>)),
      PrintStmt(CallOf(Var("j"), <<>>)),
      PrintStmt(CallOf(Var("k"), <<>>)),
      PrintStmt(CallOf(Var("j"), <<>>))>>

\* var a = "g"; fun h() { print a; } { var a = "l"; h(); }
ScopeList ==
    <<VarDecl("a", Str(<<"g">>)),
      Fun("h", <<>>, <<PrintStmt(Var("a"))>>),
      BlockStmt(<<VarDecl("a", Str(<<"l">>)), CallStmt("h")>>)>>

ClosureLists == {CounterList, MoreCountersList, ScopeList}

\* fun n() { print "n"; }
\* fun d() { while (true) { { if (true) return 7; } return 8; } return 9; }
\* fun o() { d(); return 2; return 3; }
\* print n(); print d(); print o(); { var a = 1; print d(); print a; }
ReturnList ==
    <<Fun("n", <<>>, <<PrintStmt(Str(<<"n">>))>>),
      Fun("d", <<>>,
          <<WhileStmt(True,
                      BlockStmt(<<BlockStmt(<<IfStmt(True, Return(Num(7)), NullNode)>>),
                                  Return(Num(8))>>)),
            Return(Num(9))>>),
      Fun("o", <<>>, <<CallStmt("d"), Return(Num(2)), Return(Num(3))>>),
      PrintStmt(CallOf(Var("n"), <<>>)),
      PrintStmt(CallOf(Var("d"), <<>>)),
      PrintStmt(CallOf(Var("o"), <<>>)),
      BlockStmt(<<VarDecl("a", Num(1)),
                  PrintStmt(CallOf(Var("d"), <<>>)),
                  PrintStmt(Var("a"))>>)>>

\* while (true) { print "in"; { if (true) break; } print "x"; }
InnerLoop ==
    WhileStmt(True,
              BlockStmt(<<PrintStmt(Str(<<"i", "n">>)),
                          BlockStmt(<<IfStmt(True, BreakStmt, NullNode)>>),
                          PrintStmt(Str(<<"x">>))>>))

\* var i = 0; while (i < n) { i = i + 1; InnerLoop print i; } print "end";
NestedBreakList(n) ==
    <<VarDecl("i", Num(0)),
      WhileStmt(Less(Var("i"), Num(n)),
                BlockStmt(<<ExpressionStmt(Assign(Identifier("i"), Plus(Var("i"), Num(1)))),
                            InnerLoop,
                            PrintStmt(Var("i"))>>)),
      PrintStmt(Str(<<"e", "n", "d">>))>>

\* var i = 0; while (i < 2) { i = i + 1; while (true) { InnerLoop break; } print i; }
TripleBreakList ==
    <<VarDecl("i", Num(0)),
      WhileStmt(Less(Var("i"), Num(2)),
                BlockStmt(<<ExpressionStmt(Assign(Identifier("i"), Plus(Var("i"), Num(1)))),
                            WhileStmt(True, BlockStmt(<<InnerLoop, BreakStmt>>)),
                            PrintStmt(Var("i"))>>))>>

BreakLists == {NestedBreakList(n) : n \in 0..MaxIter} \cup {TripleBreakList}

\* fun b() { break; }
\* var i = 0; while (i < 2) { i = i + 1; b(); print i; } print "end";
BreakEscapeList ==
    <<Fun("b", <<>>, <<BreakStmt>>),
      VarDecl("i", Num(0)),
      WhileStmt(Less(Var("i"), Num(2)),
                BlockStmt(<<ExpressionStmt(Assign(Identifier("i"), Plus(Var("i"), Num(1)))),
                            CallStmt("b"),
                            PrintStmt(Var("i"))>>)),
      PrintStmt(Str(<<"e", "n", "d">>))>>

\* what the scanner and the parser make of   var a=0;print(a=1),a+1;
CommaSource ==
    <<"v", "a", "r", " ", "a", "=", "0", ";",
      "p", "r", "i", "n", "t", "(", "a", "=", "1", ")", ",", "a", "+", "1", ";">>

CommaList == parse(NewParser(scanTokens(NewScanner(CommaSource, "reporter")).tokens)).node

Comma(left, right) == Binary(left, Operator("COMMA", <<",">>), right)

\* print "a" + 1;   print nil + "a";   print true + 1;   print 1 + 2;
\* print clock + "";   print nil + nil;
\* print "a" + 1; print 1 + 2; print true + 1; print nil + "a";
PlusList ==
    <<PrintStmt(Plus(Str(<<"a">>), Num(1))), PrintStmt(Plus(Num(1), Num(2))),
      PrintStmt(Plus(True, Num(1))), PrintStmt(Plus(Literal(Null), Str(<<"a">>)))>>

PlusLists ==
    {PlusList} \cup
    { <<PrintStmt(Plus(Str(<<"a">>), Num(1)))>>,
      <<PrintStmt(Plus(Literal(Null), Str(<<"a">>)))>>,
      <<PrintStmt(Plus(True, Num(1)))>>,
      <<PrintStmt(Plus(Num(1), Num(2)))>>,
      <<PrintStmt(Plus(Clock, Str(<<>>)))>>,
      <<PrintStmt(Plus(Literal(Null), Literal(Null)))>> }

\* a statement s inside a block, a loop, an if or a function that is called:
\*   { var u = 3; print 3; s print 4; }     while (true) s     if (true) s
\*   { fun g() { s print 4; } g(); print 4; }
Kinds == {"block", "while", "if", "call"}

Wrap(kind, s) ==
    CASE kind = "block" ->
            BlockStmt(<<VarDecl("u", Num(3)), PrintStmt(Num(3)), s, PrintStmt(Num(4))>>)
      [] kind = "while" -> WhileStmt(True, s)
      [] kind = "if" -> IfStmt(True, s, NullNode)
      [] kind = "call" ->
            BlockStmt(<<Fun("g", <<>>, <<s, PrintStmt(Num(4))>>), CallStmt("g"),
                        PrintStmt(Num(4))>>)

\* -"s"; at depth one and two
Nested ==
    {Wrap(k, ExpressionStmt(Failing)) : k \in Kinds}
    \cup {Wrap(k, Wrap(j, ExpressionStmt(Failing))) : k \in Kinds, j \in Kinds}

\* print 1; var v = 1; W print 2; var w = 2;
ErrorList(W) ==
    <<PrintStmt(Num(1)), VarDecl("v", Num(1)), W, PrintStmt(Num(2)), VarDecl("w", Num(2))>>

ErrorLists == {ErrorList(W) : W \in Nested}

\* most tokens, EOF apart, of the token lists enumerated exhaustively
MaxTokens == 3

\* the tokens of the words the token lists are written in: keywords,
\* punctuation, the numbers 0 to 3 and the identifiers a, b, c, f, i
Reserved ==
    "break" :> Operator("BREAK", <<"b", "r", "e", "a", "k">>)
    @@ "var" :> Operator("VAR", <<"v", "a", "r">>)
    @@ "while" :> Operator("WHILE", <<"w", "h", "i", "l", "e">>)
    @@ "for" :> Operator("FOR", <<"f", "o", "r">>)
    @@ "if" :> Operator("IF", <<"i", "f">>)
    @@ "else" :> Operator("ELSE", <<"e", "l", "s", "e">>)
    @@ "print" :> Operator("PRINT", <<"p", "r", "i", "n", "t">>)
    @@ "fun" :> Operator("FUN", <<"f", "u", "n">>)
    @@ "return" :> Operator("RETURN", <<"r", "e", "t", "u", "r", "n">>)
    @@ "true" :> Operator("TRUE", <<"t", "r", "u", "e">>)
    @@ "(" :> Operator("LEFT_PAREN", <<"(">>)
    @@ ")" :> Operator("RIGHT_PAREN", <<")">>)
    @@ "{" :> Operator("LEFT_BRACE", <<"{">>)
    @@ "}" :> Operator("RIGHT_BRACE", <<"}">>)
    @@ ";" :> Operator("SEMICOLON", <<";">>)
    @@ "," :> Operator("COMMA", <<",">>)
    @@ "=" :> Operator("EQUAL", <<"=">>)
    @@ "+" :> Operator("PLUS", <<"+">>)
    @@ "-" :> Operator("MINUS", <<"-">>)
    @@ "*" :> Operator("STAR", <<"*">>)
    @@ "/" :> Operator("SLASH", <<"/">>)
    @@ "<" :> Operator("LESS", <<"<">>)
    @@ ">" :> Operator("GREATER", <<">">>)
    @@ "!" :> Operator("BANG", <<"!">>)
    @@ "==" :> Operator("EQUAL_EQUAL", <<"=", "=">>)
    @@ "!=" :> Operator("BANG_EQUAL", <<"!", "=">>)
    @@ "<=" :> Operator("LESS_EQUAL", <<"<", "=">>)
    @@ ">=" :> Operator("GREATER_EQUAL", <<">", "=">>)

Word(w) ==
    IF w \in DOMAIN Reserved THEN Reserved[w]
    ELSE IF w = "0" THEN Token("NUMBER", <<w>>, Number(0, 1), 1)
    ELSE IF w = "1" THEN Token("NUMBER", <<w>>, Number(1, 1), 1)
    ELSE IF w = "2" THEN Token("NUMBER", <<w>>, Number(2, 1), 1)
    ELSE IF w = "3" THEN Token("NUMBER", <<w>>, Number(3, 1), 1)
    ELSE Identifier(w)

EOF == Token("EOF", <<>>, Null, 1)

\* the token list of a sequence of words, with the EOF token that ends it
TokensOf(words) == [i \in 1..Len(words) |-> Word(words[i])] \o <<EOF>>

\* every token list of at most MaxTokens of these words
ShortWords == {"{", "}", ";", "1", "a", "=", "+", "==", "break", "var", "print", "while"}
ShortTokenLists == {TokensOf(words) : words \in SeqsUpTo(ShortWords, MaxTokens)}

\* a = b = 1;
AssignChainTokens == TokensOf(<<"a", "=", "b", "=", "1", ";">>)

\* 1 = 2; print 3;     a + b = 2; print 3;     (a) = 2; print 3;
InvalidTargets == {<<"1">>, <<"a", "+", "b">>, <<"(", "a", ")">>}
InvalidTargetTokens(target) ==
    TokensOf(target \o <<"=", "2", ";", "print", "3", ";">>)

\* the binary operators that are looked for before a left operand
LeadingOperators == {"==", "!=", "<", "<=", ">", ">=", "+", "*", "/"}

\* op 1;     op 1 op 2;
LeadingTokens(op, chained) ==
    TokensOf(<<op, "1">> \o (IF chained THEN <<op, "2">> ELSE <<>>) \o <<";">>)

\* fun f() { }     fun f(a) { return a; }
FunctionWords == {<<"fun", "f", "(", ")", "{", "}">>,
                  <<"fun", "f", "(", "a", ")", "{", "return", "a", ";", "}">>}
\* return;     return 1;
ReturnWords == {<<"return", ";">>, <<"return", "1", ";">>}
\* f();     f(1);
CallWords == {<<"f", "(", ")", ";">>, <<"f", "(", "1", ")", ";">>}

\* token lists with break statements, and the number of them outside a
\* loop:   break;   while (1) break;   for (;;) break;
\*   while (1) { break; } break;
\*   while ; break;   for ; break;   while (1) 1 + ; break;
BreakWords ==
    {[words |-> <<"break", ";">>, outside |-> 1],
     [words |-> <<"while", "(", "1", ")", "break", ";">>, outside |-> 0],
     [words |-> <<"for", "(", ";", ";", ")", "break", ";">>, outside |-> 0],
     [words |-> <<"while", "(", "1", ")", "{", "break", ";", "}", "break", ";">>,
      outside |-> 1],
     [words |-> <<"while", ";", "break", ";">>, outside |-> 1],
     [words |-> <<"for", ";", "break", ";">>, outside |-> 1],
     [words |-> <<"while", "(", "1", ")", "1", "+", ";", "break", ";">>,
      outside |-> 1]}

\* (1; print 2; var = 3; print 3;
RecoveryTokens ==
    TokensOf(<<"(", "1", ";", "print", "2", ";", "var", "=", "3", ";",
               "print", "3", ";">>)

TokenLists ==
    ShortTokenLists \cup {AssignChainTokens}
    \cup {InvalidTargetTokens(target) : target \in InvalidTargets}
    \cup {LeadingTokens(op, chained) : op \in LeadingOperators, chained \in BOOLEAN}
    \cup {TokensOf(words) : words \in FunctionWords \cup ReturnWords \cup CallWords}
    \cup {TokensOf(b.words) : b \in BreakWords}
    \cup {RecoveryTokens}

\* statement lists with a for statement, as the parser builds them:
\*   var i = 3; for (var i = 0; i < 2; i = i + 1) print i; print i;
\*   var i = 0; for (; i < 2; i = i + 1) print i; print i;
\*   for (var i = 0; i < 2;) { i = i + 1; print i; }
\*   var i = 0; for (;; i = i + 1) { if (i == 1) break; print i; } print i;
\*   for (var y = 0; y < 1; y = y + 1) print y; print y;
\*   for (;;) break;
ParseWords(words) == parse(NewParser(TokensOf(words))).node
ForAllList ==
    ParseWords(<<"var", "i", "=", "3", ";", "for", "(", "var", "i", "=", "0", ";", "i", "<", "2", ";", "i", "=", "i", "+", "1", ")", "print", "i", ";", "print", "i", ";">>)
ForNoInitializerList ==
    ParseWords(<<"var", "i", "=", "0", ";", "for", "(", ";", "i", "<", "2", ";", "i", "=", "i", "+", "1", ")", "print", "i", ";", "print", "i", ";">>)
ForNoIncrementList ==
    ParseWords(<<"for", "(", "var", "i", "=", "0", ";", "i", "<", "2", ";", ")", "{", "i", "=", "i", "+", "1", ";", "print", "i", ";", "}">>)
ForBreakList ==
    ParseWords(<<"var", "i", "=", "0", ";", "for", "(", ";", ";", "i", "=", "i", "+", "1", ")", "{", "if", "(", "i", "==", "1", ")", "break", ";", "print", "i", ";", "}", "print", "i", ";">>)
ForHiddenList ==
    ParseWords(<<"for", "(", "var", "y", "=", "0", ";", "y", "<", "1", ";", "y", "=", "y", "+", "1", ")", "print", "y", ";", "print", "y", ";">>)
ForBareList == ParseWords(<<"for", "(", ";", ";", ")", "break", ";">>)

ForLists == {ForAllList, ForNoInitializerList, ForNoIncrementList, ForBreakList,
             ForHiddenList, ForBareList}

\* calls that fail, and one that does not, after
\*   fun t(a) { print a; return a; }   fun u(a) { print "u"; }
\* the call under test has its closing parenthesis on line 2:
\*   t(0)(t(1), t(2));     "s"(t(1));     clock(t(1));
\*   u(t(1), t(2));     u();     u(t(1));
\* each followed by print 9;
Tracer == Fun("t", <<Identifier("a")>>, <<PrintStmt(Var("a")), Return(Var("a"))>>)
Callee == Fun("u", <<Identifier("a")>>, <<PrintStmt(Str(<<"u">>))>>)
Traced(n) == CallOf(Var("t"), <<Num(n)>>)
ParenTested == Token("RIGHT_PAREN", <<")">>, Null, 2)
CallTested(callee, arguments) == Call(callee, ParenTested, arguments)
CallList(callee, arguments) ==
    <<Tracer, Callee, ExpressionStmt(CallTested(callee, arguments)), PrintStmt(Num(9))>>

NotCallableList == CallList(Traced(0), <<Traced(1), Traced(2)>>)
StringCalleeList == CallList(Str(<<"s">>), <<Traced(1)>>)
ClockArgumentList == CallList(Clock, <<Traced(1)>>)
TooManyList == CallList(Var("u"), <<Traced(1), Traced(2)>>)
TooFewList == CallList(Var("u"), <<>>)
RightCountList == CallList(Var("u"), <<Traced(1)>>)

CallLists == {NotCallableList, StringCalleeList, ClockArgumentList, TooManyList,
              TooFewList, RightCountList}

\* print 1; return 2; print 3;     print 1; break; print 3;
TopLevelReturnList == <<PrintStmt(Num(1)), Return(Num(2)), PrintStmt(Num(3))>>
TopLevelBreakList == <<PrintStmt(Num(1)), BreakStmt, PrintStmt(Num(3))>>

StatementLists == BlockLists \cup ShadowLists \cup {AssignList}
    \cup ClosureLists \cup {ReturnList}
    \cup BreakLists \cup {BreakEscapeList, CommaList}
    \cup PlusLists \cup ErrorLists
    \cup ForLists
    \cup CallLists
    \cup {TopLevelReturnList, TopLevelBreakList}

-----------------------------------------------------------------------------
(* Scanning, one loop iteration at a time *)

Init ==
    /\ \E source \in Sources : scanner = NewScanner(source, "reporter")
    /\ pc = "scanning"
    /\ segs = <<>>
    /\ oxente = NewOxente
    /\ interpreter = NewSession
    /\ parser = NoParse

\* while (!this.isAtEnd()) { this.start = this.current; this.scanToken(); }
ScanStep ==
    /\ pc = "scanning"
    /\ ~isAtEnd(scanner)
    /\ scanner' = scanTokensStep(scanner)
    /\ pc' = IF scanner'.thrown # "none" THEN "thrown" ELSE "scanning"
    /\ segs' = Append(segs, [from |-> scanner'.start, to |-> scanner'.current,
                             token |-> Len(scanner'.tokens) > Len(scanner.tokens),
                             error |-> Len(scanner'.reported) > Len(scanner.reported),
                             line |-> scanner.line])
    /\ UNCHANGED <<oxente, interpreter, parser>>

\* this.tokens.push(new Token(EOF, "", null, this.line)); return this.tokens;
ScanEnd ==
    /\ pc = "scanning"
    /\ isAtEnd(scanner)
    /\ scanner' = scanTokensEnd(scanner)
    /\ pc' = "returned"
    /\ UNCHANGED <<segs, oxente, interpreter, parser>>

Next == ScanStep \/ ScanEnd

Spec == Init /\ [][Next]_vars

-----------------------------------------------------------------------------
(* Properties of the scanner *)

\* the 1-based line of the character at offset n (of the last of the first
\* n characters), counted from the source text
LineAt(n) ==
    1 + Cardinality({i \in 1..n : i <= Len(scanner.source) /\ scanner.source[i] = "\n"})

SegText(g) == SubSeq(scanner.source, g.from + 1, g.to)

RECURSIVE SelectSegs(_, _)
SelectSegs(gs, kind) ==
    IF gs = <<>> THEN <<>>
    ELSE IF (kind = "token" /\ Head(gs).token) \/ (kind = "error" /\ Head(gs).error)
    THEN <<Head(gs)>> \o SelectSegs(Tail(gs), kind)
    ELSE SelectSegs(Tail(gs), kind)

TokenSegs == SelectSegs(segs, "token")
ErrorSegs == SelectSegs(segs, "error")

IsWhitespaceOrComment(text) ==
    \/ text \in {<<" ">>, <<"\r">>, <<"\t">>, <<"\n">>}
    \/ Len(text) >= 2 /\ text[1] = "/" /\ text[2] \in {"/", "*"}

IsIdentifierShaped(text) ==
    /\ text # <<>>
    /\ isAlpha(text[1])
    /\ \A i \in DOMAIN text : isAlphaNumeric(text[i])

\* C1: for every source, scanTokens terminates (every iteration of its loop
\* moves current forward, within the source, until the loop ends), and the
\* list it returns ends with exactly one EOF token, with an empty lexeme and
\* the final line
EndsWithOneEOF ==
    LET t == scanner.tokens
    IN  /\ Len(t) >= 1
        /\ t[Len(t)].type = "EOF"
        /\ t[Len(t)].lexeme = <<>>
        /\ t[Len(t)].line = scanner.line
        /\ t[Len(t)].line = LineAt(Len(scanner.source))
        /\ \A i \in 1..(Len(t) - 1) : t[i].type # "EOF"

C1_ScanTerminatesWithOneEOF ==
    /\ [][pc = "scanning" =>
             \/ pc' = "returned"
             \/ /\ pc' = "scanning"
                /\ scanner'.current > scanner.current
                /\ scanner'.current <= Len(scanner.source)]_vars
    /\ [](pc = "returned" => EndsWithOneEOF)
    /\ [](pc = "scanning" =>
             \A i \in DOMAIN scanner.tokens : scanner.tokens[i].type # "EOF")

C1_Witness ==
    /\ pc = "returned"
    /\ Len(scanner.tokens) >= 3
    /\ scanner.line >= 2
    /\ Len(scanner.reported) >= 1

\* the source text scanned so far, put together again from the lexemes of
\* the tokens, the whitespace and comments skipped and, when keepErrors, the
\* texts reported as lexical errors
RECURSIVE Reassemble(_, _, _)
Reassemble(gs, k, keepErrors) ==
    IF gs = <<>> THEN <<>>
    ELSE LET g == Head(gs)
         IN  IF g.token
             THEN scanner.tokens[k].lexeme \o Reassemble(Tail(gs), k + 1, keepErrors)
             ELSE IF IsWhitespaceOrComment(SegText(g)) \/ (keepErrors /\ g.error)
             THEN SegText(g) \o Reassemble(Tail(gs), k, keepErrors)
             ELSE Reassemble(Tail(gs), k, keepErrors)

\* C2 as stated: the lexemes of the tokens with the skipped whitespace and
\* comments, in source order, are the source
C2_LexemesAndSkippedReproduceSource ==
    pc = "returned" => Reassemble(segs, 1, FALSE) = scanner.source

\* C2 as amended: the lexemes of the tokens with the skipped whitespace and
\* comments and with the text reported as a lexical error, in source order,
\* are the source scanned so far
C2_LexemesSkippedAndErrorsReproduceSource ==
    /\ Len(TokenSegs) = Len(SelectSeq(scanner.tokens, LAMBDA t : t.type # "EOF"))
    /\ Reassemble(segs, 1, TRUE) = SubSeq(scanner.source, 1, scanner.current)
    /\ pc = "returned" => scanner.current = Len(scanner.source)

C2_Witness ==
    /\ pc = "returned"
    /\ \E i, j, k \in DOMAIN segs :
          /\ segs[i].token /\ Len(SegText(segs[i])) >= 2
          /\ segs[j].error
          /\ ~segs[k].token /\ ~segs[k].error

\* C3: an identifier-shaped lexeme gets the kind of its keyword when it is one
\* of the 17 keywords, break among them, and IDENTIFIER otherwise
SpecKeywords == keywords @@ (<<"b", "r", "e", "a", "k">> :> "BREAK")

C3_KeywordOrIdentifier ==
    \A i \in DOMAIN scanner.tokens :
        LET t == scanner.tokens[i]
        IN  IsIdentifierShaped(t.lexeme) =>
                t.type = IF t.lexeme \in DOMAIN SpecKeywords
                         THEN SpecKeywords[t.lexeme] ELSE "IDENTIFIER"

\* C4: the kind of every token emitted is a member of TokenType
C4_KindInTokenType ==
    \A i \in DOMAIN scanner.tokens : scanner.tokens[i].type \in TokenType

\* C5 as stated: the line of every token is the line of the first character
\* of its lexeme
C5_LineOfFirstCharacter ==
    \A k \in DOMAIN TokenSegs :
        scanner.tokens[k].line = LineAt(TokenSegs[k].from + 1)

\* C5 as amended: the line of every token is the line of the last character
\* of its lexeme, which is the line of its first character unless the token
\* is a STRING with a newline in it
C5_LineOfLastCharacter ==
    \A k \in DOMAIN TokenSegs :
        LET t == scanner.tokens[k]
        IN  /\ t.line = LineAt(TokenSegs[k].to)
            /\ t.lexeme = SegText(TokenSegs[k])
            /\ ~(t.type = "STRING" /\ \E i \in DOMAIN t.lexeme : t.lexeme[i] = "\n")
                  => t.line = LineAt(TokenSegs[k].from + 1)

C5_Witness ==
    /\ pc = "returned"
    /\ \E k \in DOMAIN TokenSegs :
          /\ scanner.tokens[k].type = "STRING"
          /\ LineAt(TokenSegs[k].from + 1) = 2
          /\ LineAt(TokenSegs[k].to) = 4
          /\ k < Len(TokenSegs)

\* the source with a blank in the place of every character reported as
\* unexpected
Blanked ==
    LET bad == {ErrorSegs[j].to : j \in {i \in DOMAIN ErrorSegs :
                   scanner.reported[i].message = "Unexpected character."}}
    IN  [i \in DOMAIN scanner.source |->
            IF i \in bad THEN " " ELSE scanner.source[i]]

\* C6: a lexical error is reported with the current line and does not stop
\* the scan: the tokens after an unexpected character are emitted as if the
\* character were a blank, and the list ends with EOF
C6_LexicalErrorsDoNotStopScanning ==
    /\ pc # "thrown"
    /\ Len(ErrorSegs) = Len(scanner.reported)
    /\ \A j \in DOMAIN ErrorSegs :
          /\ scanner.reported[j].line = LineAt(ErrorSegs[j].to)
          /\ scanner.reported[j].message \in
                {"Unexpected character.", "Unterminated string.",
                 "Unterminated block comment."}
          /\ scanner.reported[j].message # "Unexpected character."
                => ErrorSegs[j].to = Len(scanner.source)
    /\ pc = "returned" =>
          /\ scanner.tokens = scanTokens(NewScanner(Blanked, "reporter")).tokens
          /\ scanner.tokens[Len(scanner.tokens)].type = "EOF"

C6_Witness ==
    /\ pc = "returned"
    /\ \E i, j, k \in DOMAIN segs :
          /\ i < j /\ j < k
          /\ segs[i].error /\ segs[j].token /\ segs[k].error
          /\ LineAt(segs[i].to) = 2
    /\ scanner.reported[Len(scanner.reported)].message = "Unterminated block comment."

-----------------------------------------------------------------------------
(* The driver process: main, then the handlers of the prompt *)

DriverInit ==
    /\ scanner = NewScanner(<<>>, "error")
    /\ pc = "returned"
    /\ segs = <<>>
    /\ oxente = NewOxente
    /\ interpreter = NewSession
    /\ parser = NoParse

\* main(), with the arguments of the process and the file they name
Main ==
    /\ oxente.pc = "main"
    /\ \E args \in ArgLists, file \in Files : oxente' = main(oxente, args, file)
    /\ UNCHANGED <<scanner, pc, segs, interpreter, parser>>

\* rl.on('line', ...), for a line typed at the prompt
Line ==
    /\ oxente.pc = "prompt"
    /\ oxente.runs < MaxLines
    /\ \E line \in Declarations : oxente' = onLine(oxente, line)
    /\ UNCHANGED <<scanner, pc, segs, interpreter, parser>>

\* rl.on('close', ...), at the end of the input
Close ==
    /\ oxente.pc = "prompt"
    /\ oxente' = onClose(oxente)
    /\ UNCHANGED <<scanner, pc, segs, interpreter, parser>>

DriverNext == Main \/ Line \/ Close

DriverSpec == DriverInit /\ [][DriverNext]_vars

-----------------------------------------------------------------------------
(* Properties of the driver *)

\* the step is a call of run
Ran == oxente'.runs = oxente.runs + 1

\* C7: when the scanner or the parser reported an error for the source of
\* a run, the run leaves the interpreter as it was: nothing is executed,
\* nothing is printed, no binding changes
C7_ErrorsKeepSourceFromInterpreter ==
    [][(Ran /\ oxente'.calls > 0) => oxente'.interpreter = oxente.interpreter]_vars

\* a file with a statement parsed and an error reported: the statement is
\* not executed
C7_Witness ==
    /\ oxente.runs = 1
    /\ oxente.calls > 0
    /\ oxente.thrown = "none"
    /\ oxente.expression # <<>>
    /\ oxente.expression[1].node = "Print"
    /\ oxente.interpreter = NewInterpreter
    /\ oxente.exitCode = 65

\* C8: in file mode the exit status is 65 when an error was reported for a
\* readable file, 70 when a runtime error was raised, 0 when neither
\* happened, and 74 only when the file could not be read
C8_ExitStatusFromLatches ==
    (Len(oxente.args) = 1 /\ oxente.pc = "exited") =>
        /\ (oxente.file.readable /\ oxente.calls > 0) => oxente.exitCode = 65
        /\ oxente.hadRuntimeError => oxente.exitCode = 70
        /\ (oxente.file.readable /\ oxente.calls = 0 /\ ~oxente.hadRuntimeError)
              => oxente.exitCode = 0
        /\ oxente.exitCode = 74 => ~oxente.file.readable

\* C9: at the prompt, a line whose run ends, whatever errors it has, leaves
\* the driver waiting for the next line with both latches cleared
C9_LineReturnsToPrompt ==
    [][(oxente.pc = "prompt" /\ Ran /\ oxente'.pc # "hung") =>
          /\ oxente'.pc = "prompt"
          /\ oxente'.prompts = oxente.prompts + 1
          /\ ~oxente'.hadError
          /\ ~oxente'.hadRuntimeError]_vars

\* the file-mode run of a source that scanned and parsed without error
RanParsedFile ==
    /\ Len(oxente.args) = 1
    /\ oxente.file.readable
    /\ oxente.pc \in {"exited", "hung"}
    /\ oxente.calls = 0

\* what the statements of the file print when they are given to interpret
\* one at a time
OneAtATime == interpretEach(NewInterpreter, oxente.expression, 1, 0)

IsPrefix(s, t) == Len(s) <= Len(t) /\ s = SubSeq(t, 1, Len(s))

\* C10 as stated: the output of the whole program in one interpret call is
\* the output of its declarations given to interpret one at a time
C10_WholeEqualsOneAtATime ==
    RanParsedFile => oxente.interpreter.out = OneAtATime.I.out

\* C10: the output of the whole program in one interpret call is a prefix
\* of the output of its declarations given to interpret one at a time, and
\* is that output when no declaration raises a runtime error
C10_WholeIsPrefixOfOneAtATime ==
    RanParsedFile =>
        /\ IsPrefix(oxente.interpreter.out, OneAtATime.I.out)
        /\ (OneAtATime.errors = 0) => (oxente.interpreter.out = OneAtATime.I.out)

\* a variable defined by the first declaration is printed by the second
C10_Witness ==
    /\ RanParsedFile
    /\ Len(oxente.expression) = 2
    /\ oxente.expression[1].node = "Var"
    /\ oxente.interpreter.out = <<"1">>
    /\ OneAtATime.I.out = <<"1">>

-----------------------------------------------------------------------------
(* The Interpreter given statement lists: successive calls of interpret on *)
(* one object, for as long as the calls return                             *)

InterpreterInit ==
    /\ scanner = NewScanner(<<>>, "error")
    /\ pc = "returned"
    /\ segs = <<>>
    /\ oxente = NewOxente
    /\ interpreter = NewSession
    /\ parser = NoParse

\* interpret(statements) is called on the object, no call being in progress
Interpret ==
    /\ interpreter.ctl \in {"none", "normal", "reported"}
    /\ interpreter.calls < MaxCalls
    /\ \E statements \in StatementLists :
            interpreter' = interpretBegin(interpreter, statements)
    /\ UNCHANGED <<scanner, pc, segs, oxente, parser>>

\* for (const statement of statements) { this.execute(statement); }
Execute ==
    /\ interpreter.ctl = "running"
    /\ interpreter.next <= Len(interpreter.statements)
    /\ interpreter' = interpretStep(interpreter)
    /\ UNCHANGED <<scanner, pc, segs, oxente, parser>>

InterpretReturns ==
    /\ interpreter.ctl = "running"
    /\ interpreter.next > Len(interpreter.statements)
    /\ interpreter' = interpretEnd(interpreter)
    /\ UNCHANGED <<scanner, pc, segs, oxente, parser>>

InterpreterNext == Interpret \/ Execute \/ InterpretReturns

InterpreterSpec == InterpreterInit /\ [][InterpreterNext]_vars

-----------------------------------------------------------------------------
(* Properties of the interpreter *)

\* the interpreter of the session with e as its current environment, as it
\* is while a block or a function body whose environment is e is executed
InEnvironment(e) == [interpreter.I EXCEPT !.environment = e]

Environments == 1..Len(interpreter.I.envs)

\* the last call of interpret was given these statements and is over
Interpreted(statements) ==
    interpreter.statements = statements /\ interpreter.ctl # "running"

\* C11: executing a Block leaves the current environment as it was on entry,
\* whichever way the block exits (normally, by a runtime error, by a Return
\* or by a Break), from whichever environment it is entered; and once
\* interpret is over the current environment is the global one.
C11_BlockRestoresEnvironment ==
    /\ interpreter.ctl # "Diverge" => interpreter.I.environment = interpreter.I.globals
    /\ \A e \in Environments, B \in Blocks :
            visitBlockStmt(InEnvironment(e), B).I.environment = e

\* a call of f, whose body is the block with the runtime error, has ended:
\* it created environments, the error was reported, and from the
\* environment of the call the five blocks exit in the four ways
C11_Witness ==
    /\ Interpreted(<<Fun("f", <<>>, <<BlockError>>), CallStmt("f")>>)
    /\ interpreter.ctl = "reported"
    /\ Len(interpreter.I.envs) = 3
    /\ interpreter.I.envs[3].enclosing = 2
    /\ visitBlockStmt(InEnvironment(2), BlockNormal).ctl = "normal"
    /\ visitBlockStmt(InEnvironment(2), BlockError).ctl = "RuntimeError"
    /\ visitBlockStmt(InEnvironment(2), BlockReturn).ctl = "Return"
    /\ visitBlockStmt(InEnvironment(2), BlockBreak).ctl = "BreakInterrupt"
    /\ visitBlockStmt(InEnvironment(2), BlockNested).ctl = "RuntimeError"

\* the names bound in some environment of the interpreter
BoundNames == UNION {DOMAIN interpreter.I.envs[e].values : e \in Environments}

\* the token of an identifier with the given lexeme
Named(lexeme) == Token("IDENTIFIER", lexeme, Null, 1)

Bound(I, e, lexeme) == get(I, e, Named(lexeme)).ctl = "normal"

\* the environments of I are, unchanged, the first environments of J
SameEnvironments(I, J) ==
    Len(J.envs) >= Len(I.envs) /\ SubSeq(J.envs, 1, Len(I.envs)) = I.envs

\* C12: a block that declares its own x, and assigns to it, leaves every
\* binding of every environment that existed before it as it was, for every
\* x bound in a scope that encloses the block; the enclosing x has the value
\* it had before the block.
C12_DefineShadowsEnclosing ==
    /\ \A e \in Environments, x \in BoundNames :
            Bound(interpreter.I, e, x) =>
                \A B \in ShadowBlocks(Named(x)) :
                    /\ SameEnvironments(interpreter.I,
                                        visitBlockStmt(InEnvironment(e), B).I)
                    /\ get(visitBlockStmt(InEnvironment(e), B).I, e,
                           Named(x)).value
                         = get(interpreter.I, e, Named(x)).value
    /\ (interpreter.statements \in ShadowLists /\ interpreter.statements[1].node = "Var"
            /\ interpreter.next # 1)
            => interpreter.I.envs[1].values[<<"a">>] = Number(1, 1)

\* var a = 1; { var a = 5; a = a + 1; a = "s"; print a; } print a;  has
\* been interpreted: the block printed its own a, the statement after it
\* the global one
C12_Witness ==
    /\ interpreter.statements \in ShadowLists
    /\ interpreter.statements[1].node = "Var"
    /\ interpreter.ctl = "normal"
    /\ interpreter.I.out = <<"s", "1">>
    /\ \E e \in Environments : interpreter.I.envs[e].values = (<<"a">> :> StringLiteral(<<"s">>))

\* the nearest environment of the chain of e that binds the name, 0 when
\* none does
RECURSIVE Nearest(_, _, _)
Nearest(I, e, lexeme) ==
    IF e = 0 THEN 0
    ELSE IF lexeme \in DOMAIN I.envs[e].values THEN e
    ELSE Nearest(I, I.envs[e].enclosing, lexeme)

AssignedNames == BoundNames \cup {<<"z">>}

AssignedValues == {Null, Number(9, 1), StringLiteral(<<"s">>), BooleanValue(FALSE)}

\* the interpreter I with only the binding of the name in environment k
\* changed, to v
OneBindingChanged(I, k, lexeme, v) ==
    [I EXCEPT !.envs[k].values[lexeme] = v]

\* C13: name = value changes the binding of name in the nearest environment
\* of the chain that binds it and nothing else; when no environment of the
\* chain binds it, it raises "Undefined variable 'name'." and changes
\* nothing.
C13_AssignChangesOneBinding ==
    \A e \in Environments, x \in AssignedNames, v \in AssignedValues :
        IF Nearest(interpreter.I, e, x) # 0
        THEN evaluate(InEnvironment(e), Assign(Named(x), Literal(v)))
                = Normal(OneBindingChanged(InEnvironment(e),
                                           Nearest(interpreter.I, e, x), x, v), v)
        ELSE evaluate(InEnvironment(e), Assign(Named(x), Literal(v)))
                = RuntimeError(InEnvironment(e), Named(x),
                               "Undefined variable '" \o Concat(x) \o "'.")

\* the assignments of AssignList have been executed: b = 4 and a = 5
\* changed the bindings of the two enclosing environments, z = 6 raised the
\* error and bound nothing, and c = 7 was not reached
C13_Witness ==
    /\ Interpreted(AssignList)
    /\ interpreter.ctl = "reported"
    /\ interpreter.value.message = "Undefined variable 'z'."
    /\ interpreter.calls = 1
    /\ interpreter.I.envs[1].values[<<"a">>] = Number(5, 1)
    /\ interpreter.I.envs[2].values = (<<"b">> :> Number(4, 1))
    /\ interpreter.I.envs[3].values = (<<"c">> :> Number(3, 1))
    /\ Nearest(interpreter.I, 3, <<"b">>) = 2
    /\ Nearest(interpreter.I, 3, <<"z">>) = 0
    /\ <<"z">> \notin BoundNames

\* the user functions bound in some environment of the interpreter
Functions ==
    {v \in UNION {{interpreter.I.envs[e].values[x] : x \in DOMAIN interpreter.I.envs[e].values}
                  : e \in Environments} :
        v.type = "callable" /\ v.kind = "function"}

\* the last n lines written by print
LastOut(n) ==
    SubSeq(interpreter.I.out, Len(interpreter.I.out) - n + 1, Len(interpreter.I.out))

\* the value that the variable c has in the environment captured by the
\* function that the global variable k holds
Captured(k, c) ==
    interpreter.I.envs[interpreter.I.envs[1].values[<<k>>].closure].values[<<c>>]

\* C14: a call of a user function runs the body in a new environment whose
\* parent is the environment captured at the declaration, whatever the
\* caller's current environment is: the counter closure gives 1, 2, 3 after
\* the scope of its variable has exited, a second closure counts on its own,
\* and a function called from a block that shadows a global sees the global.
C14_CallRunsInCapturedEnvironment ==
    /\ \A e \in Environments, f \in Functions :
            arity(f) = 0 =>
                /\ Len(call(InEnvironment(e), f, <<>>).I.envs) > Len(interpreter.I.envs)
                /\ call(InEnvironment(e), f, <<>>).I.envs[Len(interpreter.I.envs) + 1].enclosing
                     = f.closure
    /\ Interpreted(CounterList)
            => /\ interpreter.ctl = "normal"
               /\ LastOut(3) = <<"1", "2", "3">>
               /\ Captured("k", "c") = Number(3, 1)
    /\ Interpreted(MoreCountersList)
            => /\ interpreter.ctl = "normal"
               /\ LastOut(6) = <<"1", "2", "3", "1", "4", "2">>
               /\ Captured("k", "c") = Number(4, 1)
               /\ Captured("j", "c") = Number(2, 1)
    /\ Interpreted(ScopeList)
            => interpreter.ctl = "normal" /\ LastOut(1) = <<"g">>

\* two counters have been made and called: six calls of closures whose
\* environment is that of a call of m that is over, each in a new
\* environment
C14_Witness ==
    /\ Interpreted(MoreCountersList)
    /\ interpreter.ctl = "normal"
    /\ interpreter.I.out = <<"1", "2", "3", "1", "4", "2">>
    /\ \E f \in Functions : f.closure # interpreter.I.globals /\ arity(f) = 0
    /\ interpreter.I.environment = interpreter.I.globals

\* the body of the function f of no parameter, executed as call does, in a
\* new environment whose parent is the closure; e is the caller's
\* environment
Body(e, f) ==
    executeBlock(NewEnvironment(InEnvironment(e), f.closure), f.declaration.body,
                 Len(interpreter.I.envs) + 1)

\* C15: a call gives nil when the body completes normally, and the value of
\* the Return that leaves the body otherwise, from whatever depth of blocks,
\* ifs and loops; the Return does not leave the call; after the call the
\* current environment is the caller's.
C15_CallReturnsValueOfReturn ==
    /\ \A e \in Environments, f \in Functions :
            arity(f) = 0 =>
                /\ call(InEnvironment(e), f, <<>>).ctl # "Return"
                /\ call(InEnvironment(e), f, <<>>).I.environment = e
                /\ Body(e, f).ctl = "normal"
                        => call(InEnvironment(e), f, <<>>) = Normal(Body(e, f).I, Null)
                /\ Body(e, f).ctl = "Return"
                        => call(InEnvironment(e), f, <<>>)
                            = Normal(Body(e, f).I, Body(e, f).value)
    /\ Interpreted(ReturnList)
            => /\ interpreter.ctl = "normal"
               /\ LastOut(6) = <<"n", "nil", "7", "2", "7", "1">>

\* the list of the three functions has been interpreted: n completed
\* normally, d returned from inside a loop, two blocks and an if, and o went
\* on after its call of d to its own first return
C15_Witness ==
    /\ Interpreted(ReturnList)
    /\ interpreter.calls = 1
    /\ interpreter.I.out = <<"n", "nil", "7", "2", "7", "1">>
    /\ interpreter.I.environment = interpreter.I.globals
    /\ \E f \in Functions : Body(1, f).ctl = "Return" /\ Body(1, f).value = Number(7, 1)
    /\ \E f \in Functions : Body(1, f).ctl = "normal"

\* what the nested loops print when the outer loop makes n iterations, from
\* iteration i on: "in" and the number of the iteration, each time
RECURSIVE Iterations(_, _)
Iterations(i, n) ==
    IF i > n THEN <<>>
    ELSE <<"in", Concat(NatToString(i))>> \o Iterations(i + 1, n)

\* C16: a Break inside nested loops ends the innermost loop that encloses
\* it and no other: what follows it in the body of that loop is skipped and
\* that loop iterates no more, while the outer loop goes on with the
\* statement after the inner loop and makes all its iterations.
C16_BreakEndsInnermostLoop ==
    /\ \A e \in Environments :
            /\ execute(InEnvironment(e), InnerLoop)
                    = Normal([InEnvironment(e) EXCEPT
                                !.out = Append(@, "in"),
                                !.envs = execute(InEnvironment(e), InnerLoop).I.envs],
                             Null)
            /\ Len(execute(InEnvironment(e), InnerLoop).I.envs)
                    = Len(interpreter.I.envs) + 2
    /\ \A n \in 0..MaxIter :
            Interpreted(NestedBreakList(n))
                => /\ interpreter.ctl = "normal"
                   /\ LastOut(2 * n + 1) = Iterations(1, n) \o <<"end">>
    /\ Interpreted(TripleBreakList)
            => /\ interpreter.ctl = "normal"
               /\ LastOut(4) = <<"in", "1", "in", "2">>

\* the outer loop has made three iterations, the inner loop having been
\* ended by its Break in each of them
C16_Witness ==
    /\ Interpreted(NestedBreakList(3))
    /\ interpreter.calls = 1
    /\ interpreter.ctl = "normal"
    /\ interpreter.I.out = <<"in", "1", "in", "2", "in", "3", "end">>
    /\ interpreter.I.envs[1].values[<<"i">>] = Number(3, 1)

\* C17: a Break never leaves a call of a user function: no call ends by a
\* BreakInterrupt, and a loop whose body calls a function that executes a
\* Break outside any loop of its own goes on iterating (here, until i is 2).
C17_BreakStaysInFunction ==
    /\ \A e \in Environments, f \in Functions :
            arity(f) = 0 => call(InEnvironment(e), f, <<>>).ctl # "BreakInterrupt"
    /\ Interpreted(BreakEscapeList)
            => interpreter.I.envs[1].values[<<"i">>] = Number(2, 1)

\* what the code does with BreakEscapeList: the Break of b ends the loop of
\* the caller in its first iteration, silently
C17_BreakEndsLoopOfCaller ==
    Interpreted(BreakEscapeList)
        => /\ interpreter.ctl = "normal"
           /\ interpreter.I.envs[1].values[<<"i">>] = Number(1, 1)
           /\ LastOut(1) = <<"end">>
           /\ call(interpreter.I, interpreter.I.envs[1].values[<<"b">>], <<>>).ctl
                = "BreakInterrupt"

\* operands of every type of value, one that assigns and one that raises
\* an error:   1   "s"   nil   true   a = 1   a + 1   -"s"
CommaOperands ==
    {Num(1), Str(<<"s">>), Literal(Null), True, Assign(Identifier("a"), Num(1)),
     Plus(Var("a"), Num(1)), Failing}

\* C18: left , right evaluates left, then right, and its value is the value
\* of right, for all operand values; print (a=1),a+1; prints 2.
C18_CommaYieldsRight ==
    /\ \A e \in Environments, left \in CommaOperands, right \in CommaOperands :
            evaluate(InEnvironment(e), Comma(left, right))
                = Then(evaluate(InEnvironment(e), left), LAMBDA l : evaluate(l.I, right))
    /\ Interpreted(CommaList) => LastOut(1) = <<"2">>

\* what the code does: both operands are evaluated, in order, and the value
\* is nil
C18_CommaYieldsNil ==
    /\ \A e \in Environments, left \in CommaOperands, right \in CommaOperands :
            evaluate(InEnvironment(e), Comma(left, right))
                = Then(evaluate(InEnvironment(e), left), LAMBDA l :
                  Then(evaluate(l.I, right), LAMBDA r : Normal(r.I, Null)))
    /\ Interpreted(CommaList)
            => /\ CommaList[2] = PrintStmt(Comma(Grouping(Assign(Identifier("a"), Num(1))),
                                                 Plus(Var("a"), Num(1))))
               /\ LastOut(1) = <<"nil">>
               /\ interpreter.I.envs[1].values[<<"a">>] = Number(1, 1)

\* a user function named f, as visitFunctionStmt makes it
FunctionF == FunctionCallable(Fun("f", <<>>, <<>>), 1, 1)

\* operand values of every type: nil, the booleans, the numbers 0, 1, 2,
\* -1.5 and 0.25, strings, the native function and a user function
PlusValues ==
    {Null, BooleanValue(TRUE), BooleanValue(FALSE),
     Number(0, 1), Number(1, 1), Number(2, 1), Number(-3, 2), Number(1, 4),
     StringLiteral(<<>>), StringLiteral(<<"a">>), StringLiteral(<<"1", ".", "0">>),
     ClockCallable, FunctionF}

\* the stringified form of each of these values, as the specification
\* gives it
SpecText(v) ==
    CASE v = Null -> <<"n", "i", "l">>
      [] v = BooleanValue(TRUE) -> <<"t", "r", "u", "e">>
      [] v = BooleanValue(FALSE) -> <<"f", "a", "l", "s", "e">>
      [] v = Number(0, 1) -> <<"0">>
      [] v = Number(1, 1) -> <<"1">>
      [] v = Number(2, 1) -> <<"2">>
      [] v = Number(-3, 2) -> <<"-", "1", ".", "5">>
      [] v = Number(1, 4) -> <<"0", ".", "2", "5">>
      [] v = ClockCallable -> <<"<", "n", "a", "t", "i", "v", "e", " ", "f", "n", ">">>
      [] v = FunctionF -> <<"<", "f", "n", " ", "f", ">">>
      [] OTHER -> v.chars

\* the sum of two numbers, as fractions
Sum(l, r) == Number(l.num * r.den + r.num * l.den, l.den * r.den)

\* C19: left + right is the sum when both operands are numbers; otherwise,
\* when at least one is a string, the concatenation of the stringified
\* forms of both; otherwise the runtime error "Operands must be two numbers
\* or two strings."
C19_PlusAddsOrConcatenates ==
    /\ \A l \in PlusValues, r \in PlusValues :
            evaluate(interpreter.I, Plus(Literal(l), Literal(r)))
                = IF l.type = "number" /\ r.type = "number"
                  THEN Normal(interpreter.I, Sum(l, r))
                  ELSE IF l.type = "string" \/ r.type = "string"
                  THEN Normal(interpreter.I, StringLiteral(SpecText(l) \o SpecText(r)))
                  ELSE RuntimeError(interpreter.I, Operator("PLUS", <<"+">>),
                                    "Operands must be two numbers or two strings.")
    /\ Interpreted(<<PrintStmt(Plus(Str(<<"a">>), Num(1)))>>)
            => interpreter.ctl = "normal" /\ LastOut(1) = <<"a1">>
    /\ Interpreted(<<PrintStmt(Plus(Literal(Null), Str(<<"a">>)))>>)
            => interpreter.ctl = "normal" /\ LastOut(1) = <<"nila">>
    /\ Interpreted(<<PrintStmt(Plus(Num(1), Num(2)))>>)
            => interpreter.ctl = "normal" /\ LastOut(1) = <<"3">>
    /\ Interpreted(<<PrintStmt(Plus(Clock, Str(<<>>)))>>)
            => interpreter.ctl = "normal" /\ LastOut(1) = <<"<native fn>">>
    /\ (Interpreted(<<PrintStmt(Plus(True, Num(1)))>>)
            \/ Interpreted(<<PrintStmt(Plus(Literal(Null), Literal(Null)))>>))
            => /\ interpreter.ctl = "reported"
               /\ interpreter.value.message = "Operands must be two numbers or two strings."

\* "a" + 1 and 1 + 2 have been printed, and then true + 1 has raised its
\* error
C19_Witness ==
    /\ Interpreted(PlusList)
    /\ interpreter.ctl = "reported"
    /\ interpreter.I.out = <<"a1", "3">>
    /\ Len(interpreter.runtimeErrors) = 1

\* the lines that W prints before its error: one 3 for every block that
\* encloses the failing statement
RECURSIVE Threes(_)
Threes(W) ==
    CASE W.node = "Block" /\ W.statements[1].node = "Var" ->
            <<"3">> \o Threes(W.statements[3])
      [] W.node = "Block" -> Threes(W.statements[1].body[1])
      [] W.node = "While" -> Threes(W.body)
      [] W.node = "If" -> Threes(W.thenBranch)
      [] OTHER -> <<>>

\* what interpret leaves when the third statement of ErrorList(W) fails
ErrorReported(W) ==
    /\ interpreter.ctl = "reported"
    /\ interpreter.value = [token |-> Operator("MINUS", <<"-">>),
                            message |-> "Operand must be a number."]
    /\ LastOut(1 + Len(Threes(W))) = <<"1">> \o Threes(W)
    /\ interpreter.I.envs[1].values[<<"v">>] = Number(1, 1)
    /\ <<"w">> \notin DOMAIN interpreter.I.envs[1].values
    /\ interpreter.I.environment = interpreter.I.globals

\* the reporter receives an error when interpret catches one, and only then
ReportedOnce ==
    interpreter'.runtimeErrors =
        IF interpreter.ctl = "running" /\ interpreter.next <= Len(interpreter.statements)
           /\ execute(interpreter.I, interpreter.statements[interpreter.next]).ctl
                = "RuntimeError"
        THEN Append(interpreter.runtimeErrors,
                    execute(interpreter.I, interpreter.statements[interpreter.next]).value)
        ELSE interpreter.runtimeErrors

\* no statement is executed once the call is over
NothingAfter == interpreter.ctl # "running" => interpreter'.I = interpreter.I

\* C20: a runtime error raised at any depth of blocks, loops, ifs and
\* function calls reaches interpret, which gives it to the reporter once;
\* no statement after the failing one is executed, neither in the nested
\* statements nor in the list; what was printed and bound before is kept.
C20_RuntimeErrorUnwindsToInterpret ==
    /\ [](\A W \in Nested : Interpreted(ErrorList(W)) => ErrorReported(W))
    /\ [][ReportedOnce /\ NothingAfter]_vars

\* the error was raised in a function called in the body of a loop: the
\* call of interpret has reported it and is over, with 1 printed and v bound
C20_Witness ==
    /\ Interpreted(ErrorList(Wrap("while", Wrap("call", ExpressionStmt(Failing)))))
    /\ interpreter.ctl = "reported"
    /\ interpreter.next = 0
    /\ Len(interpreter.runtimeErrors) = 1
    /\ interpreter.I.out = <<"1">>
    /\ Len(interpreter.I.envs) = 3

-----------------------------------------------------------------------------
(* The Parser given token lists: a call of parse on a new Parser, one      *)
(* iteration of its loop at a time                                         *)

ParserInit ==
    /\ scanner = NewScanner(<<>>, "error")
    /\ pc = "returned"
    /\ segs = <<>>
    /\ oxente = NewOxente
    /\ interpreter = NewSession
    /\ parser = NoParse

\* new Parser(tokens, reporter).parse()
Parse ==
    /\ parser.ctl = "none"
    /\ \E tokens \in TokenLists : parser' = parseBegin(tokens)
    /\ UNCHANGED <<scanner, pc, segs, oxente, interpreter>>

\* while (!this.isAtEnd()) { ... }: one iteration
Declaration ==
    /\ parser.ctl = "running"
    /\ ~pIsAtEnd(parser.p)
    /\ parser' = parseStep(parser)
    /\ UNCHANGED <<scanner, pc, segs, oxente, interpreter>>

\* return statements;
ParseReturns ==
    /\ parser.ctl = "running"
    /\ pIsAtEnd(parser.p)
    /\ parser' = parseEnd(parser)
    /\ UNCHANGED <<scanner, pc, segs, oxente, interpreter>>

ParserNext == Parse \/ Declaration \/ ParseReturns

ParserSpec == ParserInit /\ [][ParserNext]_vars

-----------------------------------------------------------------------------
(* Properties of the parser *)

\* parse has returned from the token list tokens
Parsed(tokens) == parser.ctl = "returned" /\ parser.p.tokens = tokens

\* the positions of the token list under parse, and the Parser at one of
\* them with nothing reported yet
Positions == 0 .. Len(parser.p.tokens) - 1
At(i) == [NewParser(parser.p.tokens) EXCEPT !.current = i]

Report(token, message) == [token |-> token, message |-> message]

\* what assignment does at p when comma parses a left side there, a "="
\* follows it and assignment parses a value after the "="
AssignmentAt(p) ==
    With(comma(p), LAMBDA left :
        (~Thrown(left.p) /\ pCheck(left.p, "EQUAL")) =>
        With(assignment(pAdvance(left.p)), LAMBDA value :
            ~Thrown(value.p) =>
            With(assignment(p), LAMBDA r :
                IF left.node.node = "Variable"
                THEN r = Ret(value.p, Assign(left.node.name, value.node))
                ELSE /\ r.node = left.node
                     /\ r.p = pError(value.p, pPeek(left.p),
                                     "Invalid assignment target."))))

\* C21: when "=" follows a parsed left side, assignment yields
\* Assign(name, value) if the left side is a Variable; otherwise it reports
\* "Invalid assignment target." at the "=" token without throwing, yields
\* the left side and parsing goes on with the rest of the statement, with
\* no resynchronisation; a = b = 1 is Assign(a, Assign(b, 1)).
C21_AssignmentYieldsAssignOrReports ==
    /\ \A i \in Positions : AssignmentAt(At(i))
    /\ Parsed(AssignChainTokens) =>
        /\ parser.statements = <<ExpressionStmt(Assign(Identifier("a"),
                                                Assign(Identifier("b"), Num(1))))>>
        /\ parser.p.reported = <<>>
    /\ \A target \in InvalidTargets :
        Parsed(InvalidTargetTokens(target)) =>
        /\ parser.statements =
               <<ExpressionStmt(expression(NewParser(TokensOf(target))).node),
                 PrintStmt(Num(3))>>
        /\ parser.p.reported = <<Report(Word("="), "Invalid assignment target.")>>

\* 1 = 2; print 3; was parsed: one error, and both statements
C21_Witness ==
    /\ Parsed(InvalidTargetTokens(<<"1">>))
    /\ parser.statements = <<ExpressionStmt(Num(1)), PrintStmt(Num(3))>>
    /\ Len(parser.p.reported) = 1

\* C22: a binary operator where a left operand is expected is reported
\* once ("Missing left-hand operand."), its right operand is consumed and
\* nothing is thrown, so the statement is kept and no further error is
\* reported when the tokens after the operator are well formed: op 1; and
\* op 1 op 2; for each of ==, !=, <, <=, >, >=, +, *, /.
C22_LeadingOperatorReportedOnce ==
    \A op \in LeadingOperators, chained \in BOOLEAN :
        Parsed(LeadingTokens(op, chained)) =>
        /\ parser.p.reported = <<Report(Word(op), "Missing left-hand operand.")>>
        /\ Len(parser.statements) = 1
        /\ parser.statements[1].node = "Expression"

\* what the parser does: op 1; is reported once and kept, with nil for
\* its expression; in op 1 op 2; the operand consumed is 1 alone, the second
\* operator is met where ";" is expected, a second error is reported and
\* thrown, and the statement is dropped
C22_ChainedOperandReportedTwice ==
    \A op \in LeadingOperators :
        /\ Parsed(LeadingTokens(op, FALSE)) =>
            /\ parser.p.reported = <<Report(Word(op), "Missing left-hand operand.")>>
            /\ parser.statements = <<ExpressionStmt(Literal(Null))>>
        /\ Parsed(LeadingTokens(op, TRUE)) =>
            /\ parser.p.reported =
                  <<Report(Word(op), "Missing left-hand operand."),
                    Report(Word(op), "Expect ';' after expression.")>>
            /\ parser.statements = <<>>

\* C23: the token lists of a function declaration, of a return statement
\* and of a call expression parse, with no error reported, into a
\* Function node, a Return node and a Call node.
C23_FunctionReturnCallParse ==
    /\ \A words \in FunctionWords \cup ReturnWords \cup CallWords :
        Parsed(TokensOf(words)) =>
            parser.p.reported = <<>> /\ Len(parser.statements) = 1
    /\ \A words \in FunctionWords :
        Parsed(TokensOf(words)) => parser.statements[1].node = "Function"
    /\ \A words \in ReturnWords :
        Parsed(TokensOf(words)) => parser.statements[1].node = "Return"
    /\ \A words \in CallWords :
        Parsed(TokensOf(words)) =>
            /\ parser.statements[1].node = "Expression"
            /\ parser.statements[1].expression.node = "Call"

\* what the parser does: "fun" and "return" are met where an expression is
\* expected, "(" after f where ";" is expected; each is reported and
\* thrown, and no statement is left
C23_FunctionReturnCallRejected ==
    /\ Parsed(TokensOf(<<"fun", "f", "(", ")", "{", "}">>)) =>
        /\ parser.p.reported = <<Report(Word("fun"), "Expect expression.")>>
        /\ parser.statements = <<>>
    /\ Parsed(TokensOf(<<"return", "1", ";">>)) =>
        /\ parser.p.reported = <<Report(Word("return"), "Expect expression.")>>
        /\ parser.statements = <<>>
    /\ Parsed(TokensOf(<<"f", "(", "1", ")", ";">>)) =>
        /\ parser.p.reported = <<Report(Word("("), "Expect ';' after expression.")>>
        /\ parser.statements = <<>>

\* the reports of a break outside a loop
BreakReports ==
    SelectSeq(parser.p.reported,
              LAMBDA e : e = Report(Word("break"),
                                    "Must be inside a loop to use 'break'."))

\* C24: loopDepth is the number of while and for statements whose parse is
\* in progress, also after a parse error thrown inside a loop was recovered
\* by synchronize: it is 0 between the declarations of the top level, every
\* break outside a loop is reported at its token and no break inside a loop
\* is reported.
C24_LoopDepthCountsLoopsInProgress ==
    /\ parser.p.loopDepth = 0
    /\ \A b \in BreakWords :
        Parsed(TokensOf(b.words)) => Len(BreakReports) = b.outside

\* what the parser does: loopDepth is counted down on the normal exit of
\* whileStatement and forStatement only, so after while ; (an error in the
\* header) it stays 1 and the break that follows, outside any loop, is not
\* reported
C24_LoopDepthStaysCountedUp ==
    Parsed(TokensOf(<<"while", ";", "break", ";">>)) =>
        /\ parser.p.loopDepth = 1
        /\ parser.p.reported = <<Report(Word(";"), "Expect '(' after 'while'.")>>
        /\ parser.statements = <<BreakStmt>>

-----------------------------------------------------------------------------
(* Properties of the parser and the interpreter together *)

\* the clauses of the for statements: i < 2, i = i + 1, print i
ForCondition(c, n) == Less(Var(c), Num(n))
ForIncrement(c) == Assign(Identifier(c), Plus(Var(c), Num(1)))
ForPrint(c) == PrintStmt(Var(c))

\* C25: for (init; cond; incr) body is parsed to
\* Block[init, While(cond, Block[body, Expression(incr)])]; an omitted
\* condition becomes Literal(true), an omitted increment leaves the body
\* unwrapped and an omitted initializer leaves the While unwrapped.  So the
\* increment runs after each completed iteration of the body and not after
\* a Break, and the variable of the initializer is not visible after the
\* loop.
C25_ForDesugarsToWhile ==
    /\ ForAllList =
        <<VarDecl("i", Num(3)),
          BlockStmt(<<VarDecl("i", Num(0)),
                      WhileStmt(ForCondition("i", 2),
                                BlockStmt(<<ForPrint("i"),
                                            ExpressionStmt(ForIncrement("i"))>>))>>),
          ForPrint("i")>>
    /\ ForNoInitializerList =
        <<VarDecl("i", Num(0)),
          WhileStmt(ForCondition("i", 2),
                    BlockStmt(<<ForPrint("i"), ExpressionStmt(ForIncrement("i"))>>)),
          ForPrint("i")>>
    /\ ForNoIncrementList =
        <<BlockStmt(<<VarDecl("i", Num(0)),
                      WhileStmt(ForCondition("i", 2),
                                BlockStmt(<<ExpressionStmt(ForIncrement("i")),
                                            ForPrint("i")>>))>>)>>
    /\ ForBareList = <<WhileStmt(True, BreakStmt)>>
    /\ ForBreakList[2].condition = True
    /\ ForBreakList[2].body.statements[2] = ExpressionStmt(ForIncrement("i"))
    /\ Interpreted(ForAllList) =>
        interpreter.ctl = "normal" /\ LastOut(3) = <<"0", "1", "3">>
    /\ Interpreted(ForNoInitializerList) =>
        interpreter.ctl = "normal" /\ LastOut(3) = <<"0", "1", "2">>
    /\ Interpreted(ForNoIncrementList) =>
        interpreter.ctl = "normal" /\ LastOut(2) = <<"1", "2">>
    /\ Interpreted(ForBreakList) =>
        interpreter.ctl = "normal" /\ LastOut(2) = <<"0", "1">>
    /\ Interpreted(ForHiddenList) =>
        /\ interpreter.ctl = "reported"
        /\ interpreter.value = [token |-> Identifier("y"),
                                message |-> "Undefined variable 'y'."]
        /\ LastOut(1) = <<"0">>
    /\ Interpreted(ForBareList) => interpreter.ctl = "normal"

\* the for statement with a Break was interpreted: the increment ran after
\* the first iteration and not after the Break of the second
C25_Witness ==
    /\ Interpreted(ForBreakList)
    /\ interpreter.I.out = <<"0", "1">>
    /\ interpreter.I.envs[1].values[<<"i">>] = Number(1, 1)

-----------------------------------------------------------------------------
(* Properties of the parser: recovery *)

\* the Parser at position i, when the parse loops can call declaration there
CanDeclare(i) == ~pIsAtEnd(At(i))

\* the Parser as the catch clause of declaration receives it
Caught(p) == [p EXCEPT !.thrown = "none"]

\* where synchronize may stop
AtBoundary(p) ==
    \/ pIsAtEnd(p)
    \/ p.current > 0 /\ pPrevious(p).type = "SEMICOLON"
    \/ pPeek(p).type \in {"CLASS", "FUN", "VAR", "FOR", "IF", "WHILE", "PRINT", "RETURN"}

\* the ParseError thrown at t was reported, at the token it was thrown at
ReportedBeforeThrown(t) ==
    /\ t.reported # <<>>
    /\ t.reported[Len(t.reported)].token = pPeek(t)

\* C26 as stated: after a parse error thrown out of a declaration,
\* synchronize discards at least one token.
C26_SynchronizeDiscardsAToken ==
    \A i \in Positions : CanDeclare(i) =>
        With(tryDeclaration(At(i)), LAMBDA t :
            Thrown(t.p) => synchronize(Caught(t.p)).current > t.p.current)

\* C26, amended: the error thrown out of a declaration was reported before
\* it was thrown; synchronize discards at least one token unless the error
\* was thrown at EOF, where it discards none; it stops at the first place
\* after that token where the previous token is ";" or the next one is
\* class, fun, var, for, if, while, print, return or EOF; declaration
\* returns null there and the parse goes on with the next declaration.
C26_SynchronizeStopsAtBoundary ==
    /\ \A i \in Positions : CanDeclare(i) =>
        With(tryDeclaration(At(i)), LAMBDA t :
            Thrown(t.p) =>
            With(declaration(At(i)), LAMBDA d :
                /\ ReportedBeforeThrown(t.p)
                /\ d.node = NullNode
                /\ ~Thrown(d.p)
                /\ d.p.reported = t.p.reported
                /\ IF pIsAtEnd(t.p) THEN d.p.current = t.p.current
                   ELSE d.p.current > t.p.current
                /\ AtBoundary(d.p)
                /\ \A k \in t.p.current + 1 .. d.p.current - 1 :
                        ~AtBoundary([d.p EXCEPT !.current = k])))
    /\ Parsed(RecoveryTokens) =>
        /\ parser.statements = <<PrintStmt(Num(2)), PrintStmt(Num(3))>>
        /\ parser.p.reported = <<Report(Word(";"), "Expect ')' after expression."),
                                 Report(Word("="), "Expect variable name.")>>

\* (1; print 2; var = 3; print 3; was parsed: two errors were recovered and
\* the two statements after them are there
C26_Witness ==
    /\ Parsed(RecoveryTokens)
    /\ Len(parser.p.reported) = 2
    /\ Len(parser.statements) = 2

-----------------------------------------------------------------------------
(* Properties of the interpreter: calls *)

\* the values that are not callable, and argument lists of literals
NotCallables == {Null, BooleanValue(TRUE), Number(1, 1), StringLiteral(<<"s">>)}
LiteralArguments == {<<>>, <<Num(1)>>, <<Num(1), Num(2)>>}

CallError(message) == [token |-> ParenTested, message |-> message]

\* interpret ended with this error of the call under test, the lines out
\* being the last ones printed and print 9; not having been executed
CallFailed(message, out) ==
    /\ interpreter.ctl = "reported"
    /\ interpreter.value = CallError(message)
    /\ Len(interpreter.I.out) >= Len(out)
    /\ LastOut(Len(out)) = out

\* C27: a Call evaluates its callee, then its arguments from left to right,
\* and only then checks: a callee that is not callable raises "Can only
\* call functions and classes." and a number of arguments other than the
\* arity raises "Expected N arguments but got M.", both at the closing
\* parenthesis; the body is not entered and no environment is created.
C27_CallChecksAfterArguments ==
    /\ \A e \in Environments, v \in NotCallables, arguments \in LiteralArguments :
        evaluate(InEnvironment(e), CallTested(Literal(v), arguments))
            = RuntimeError(InEnvironment(e), ParenTested,
                           "Can only call functions and classes.")
    /\ \A e \in Environments, f \in Functions \cup {ClockCallable},
          arguments \in LiteralArguments :
        Len(arguments) # arity(f) =>
        evaluate(InEnvironment(e), CallTested(Literal(f), arguments))
            = RuntimeError(InEnvironment(e), ParenTested,
                           "Expected " \o Concat(NatToString(arity(f)))
                           \o " arguments but got "
                           \o Concat(NatToString(Len(arguments))) \o ".")
    /\ Interpreted(NotCallableList) =>
        CallFailed("Can only call functions and classes.", <<"0", "1", "2">>)
    /\ Interpreted(StringCalleeList) =>
        CallFailed("Can only call functions and classes.", <<"1">>)
    /\ Interpreted(ClockArgumentList) =>
        CallFailed("Expected 0 arguments but got 1.", <<"1">>)
    /\ Interpreted(TooManyList) =>
        CallFailed("Expected 1 arguments but got 2.", <<"1", "2">>)
    /\ Interpreted(TooFewList) =>
        /\ interpreter.ctl = "reported"
        /\ interpreter.value = CallError("Expected 1 arguments but got 0.")
    /\ Interpreted(RightCountList) =>
        /\ interpreter.ctl = "normal"
        /\ Len(interpreter.I.out) >= 3
        /\ LastOut(3) = <<"1", "u", "9">>
    /\ \A list \in CallLists : (Interpreted(list) /\ interpreter.calls = 1) =>
        Len(interpreter.I.envs) =
            1 + Len(interpreter.I.out) - (IF list = RightCountList THEN 1 ELSE 0)

\* u(t(1), t(2)); was interpreted: both arguments were evaluated, the error
\* was raised, u was not entered and the only environments are the global
\* one and those of the two calls of t
C27_Witness ==
    /\ Interpreted(TooManyList)
    /\ interpreter.ctl = "reported"
    /\ interpreter.I.out = <<"1", "2">>
    /\ Len(interpreter.I.envs) = 3

-----------------------------------------------------------------------------
(* Properties of the parser: termination and the lists it builds *)

\* the token index is an index of the token list
InBounds(p) == p.current >= 0 /\ p.current + 1 <= Len(p.tokens)

\* an iteration of the loop of parse consumes at least one token, and the
\* call returns when the loop finds the token index at EOF
TopLevelProgress ==
    parser.ctl = "running" =>
        \/ parser'.ctl = "running" /\ parser'.p.current > parser.p.current
        \/ parser'.ctl = "returned" /\ parser'.p = parser.p /\ pIsAtEnd(parser.p)

\* C28: parse terminates for every token list that ends with EOF: the
\* token index stays within the list, and every iteration of the loop of
\* parse and every call of declaration that the loop of block can make
\* consumes at least one token, so that the number of tokens left
\* decreases until the index is at EOF, where both loops end.
C28_ParseTerminates ==
    /\ [](parser.ctl # "none" =>
            /\ InBounds(parser.p)
            /\ \A i \in Positions : CanDeclare(i) =>
                With(declaration(At(i)), LAMBDA d :
                    d.p.current > i /\ InBounds(d.p)))
    /\ [][TopLevelProgress]_vars

\* parse has returned from { { ; after three errors, recovered at EOF, all
\* the tokens consumed
C28_Witness ==
    /\ Parsed(TokensOf(<<"{", "{", ";">>))
    /\ pIsAtEnd(parser.p)
    /\ parser.p.current = 3
    /\ Len(parser.p.reported) = 3

\* no statement list inside the statement s holds null
RECURSIVE NullFree(_)
NullFree(s) ==
    CASE s.node = "Block" ->
            \A i \in DOMAIN s.statements :
                s.statements[i] # NullNode /\ NullFree(s.statements[i])
      [] s.node = "While" -> NullFree(s.body)
      [] s.node = "If" ->
            NullFree(s.thenBranch) /\ (s.elseBranch = NullNode \/ NullFree(s.elseBranch))
      [] OTHER -> TRUE

\* C29: the list parse builds, and the list of every Block in it at any
\* depth, hold statement nodes only, never null, also after a parse error
\* was recovered inside a block.
C29_StatementListsHoldNoNull ==
    \A i \in DOMAIN parser.statements :
        parser.statements[i] # NullNode /\ NullFree(parser.statements[i])

\* what the parser does: parse leaves out the null that declaration returns
\* after an error, block pushes it
C29_BlockKeepsNull ==
    /\ Parsed(TokensOf(<<";", "{", "}">>)) => parser.statements = <<BlockStmt(<<>>)>>
    /\ Parsed(TokensOf(<<"{", ";", "}">>)) =>
        /\ parser.statements = <<BlockStmt(<<NullNode>>)>>
        /\ parser.p.reported = <<Report(Word(";"), "Expect expression.")>>

-----------------------------------------------------------------------------
(* Properties of the interpreter: the end of interpret *)

\* C30: interpret lets no exception reach its caller, whatever the
\* statement list: a call of interpret that is over has returned, either
\* after the last statement or after it gave the error that ended it to the
\* runtime error reporter; so for a Return outside any call and a Break
\* outside any While.
C30_InterpretThrowsNothing ==
    /\ interpreter.ctl \in {"none", "running", "normal", "reported"}
    /\ Interpreted(TopLevelReturnList) =>
        interpreter.ctl = "reported" /\ interpreter.runtimeErrors # <<>>
    /\ Interpreted(TopLevelBreakList) =>
        interpreter.ctl = "reported" /\ interpreter.runtimeErrors # <<>>

\* what interpret does: its catch clause rethrows what is not a
\* RuntimeError, so the Return and the BreakInterrupt leave interpret, the
\* reporter receiving nothing
C30_ReturnAndBreakLeaveInterpret ==
    /\ (Interpreted(TopLevelReturnList) /\ interpreter.calls = 1) =>
        /\ interpreter.ctl = "Return"
        /\ interpreter.value = Number(2, 1)
        /\ interpreter.runtimeErrors = <<>>
        /\ interpreter.I.out = <<"1">>
    /\ (Interpreted(TopLevelBreakList) /\ interpreter.calls = 1) =>
        /\ interpreter.ctl = "BreakInterrupt"
        /\ interpreter.runtimeErrors = <<>>
        /\ interpreter.I.out = <<"1">>

=============================================================================
